---- MODULE Spec2Model ----
(***************************************************************************)
(* Model of the local state of the Mixpanel Tauri plugin: the file-backed  *)
(* Persistence store (persistence.rs), the in-memory super-property        *)
(* overlay of MixpanelState (state.rs), the detached save and delete tasks *)
(* and the backing file they write.                                        *)
(*                                                                         *)
(* Option<T> is modelled as a set: {} is None and {x} is Some(x).          *)
(* HashMap<K, V> is modelled as a function whose DOMAIN is the key set.    *)
(* Time is counted in units of half a day, held in an unsigned integer of  *)
(* U64Bits bits (the u64 of the source, scaled down), so DayMillis == 2.   *)
(***************************************************************************)
EXTENDS Integers, Sequences, FiniteSets, TLC

\* ---------------------------------------------------------------- bounds
U64Bits == 4
MaxNow == 2
MaxTasks == 2
NChunks == 2
\* the most events the concurrent callers of track hand to the client
MaxSent == 3
\* the largest Config.max_retries tried
MaxRetries == 5

\* one day in model time units (d * 24 * 60 * 60 seconds, as_millis)
DayMillis == 2

U64 == 2 ^ U64Bits

\* ------------------------------------------------------------ input sets
Keys == {"k1", "k2"}
Vals == {"a", "b"}
Ids == {"u1"}
Events == {"E"}

\* the days option: absent, 0, small values, and one so large that
\* d * DayMillis no longer fits the integer width
BigDays == U64 \div DayMillis
DaysOpts == {{}, {0}, {1}, {2}, {BigDays}}

\* ------------------------------------------------------------ Option, map
NoneOpt == {}
Some(x) == {x}
Unwrap(o) == CHOOSE x \in o : TRUE

EmptyMap == [k \in {} |-> "a"]
MapGet(m, k) == IF k \in DOMAIN m THEN {m[k]} ELSE {}
MapInsert(m, k, v) == [x \in DOMAIN m \cup {k} |-> IF x = k THEN v ELSE m[x]]
MapRemove(m, k) == [x \in DOMAIN m \ {k} |-> m[x]]
MapExtend(m, p) == [x \in DOMAIN m \cup DOMAIN p |-> IF x \in DOMAIN p THEN p[x] ELSE m[x]]
MapsOver(K, V) == UNION {[S -> V] : S \in SUBSET K}

PropMaps == MapsOver(Keys, Vals)

\* ------------------------------------------------------- PersistentData
PersistentDataDefault ==
    [distinct_id |-> {}, alias |-> {}, event_timers |-> [e \in {} |-> 0],
     properties |-> EmptyMap, store_expires_at |-> {}]

\* -------------------------------------- expiry update of register (u64)
expires_at_of(t, d) == (t + ((d * DayMillis) % U64)) % U64

update_expiry(cur, t, days) ==
    IF days = {} THEN cur
    ELSE LET d == Unwrap(days) IN
         IF d > 0
         THEN LET expires_at == expires_at_of(t, d) IN
              IF cur = {} \/ (\E current_exp \in cur :
                                  expires_at > current_exp \/ t >= current_exp)
              THEN {expires_at}
              ELSE cur
         ELSE {}

\* mutant of is_expired: the comparison made strict
is_expired_strict(d, t) == \E expires_at \in d.store_expires_at : t > expires_at

is_expired(d, t) == \E expires_at \in d.store_expires_at : t >= expires_at

\* ------------------------------------------- Persistence: record updates
persistence_register(d, t, props, days) ==
    [d EXCEPT !.properties = MapExtend(d.properties, props),
              !.store_expires_at = update_expiry(d.store_expires_at, t, days)]

\* mutant of once_sets: default_value is not looked at
once_sets_absent_only(m, k, default_value) == k \notin DOMAIN m

once_sets(m, k, default_value) ==
    \/ k \notin DOMAIN m
    \/ (k \in DOMAIN m /\ default_value # {} /\ m[k] = Unwrap(default_value))

once_props(m, props, default_value) ==
    [x \in DOMAIN m \cup DOMAIN props |->
        IF x \in DOMAIN props /\ once_sets(m, x, default_value) THEN props[x] ELSE m[x]]

once_changed(m, props, default_value) ==
    \E k \in DOMAIN props : once_sets(m, k, default_value)

persistence_register_once(d, t, props, default_value, days) ==
    IF once_changed(d.properties, props, default_value)
    THEN [d EXCEPT !.properties = once_props(d.properties, props, default_value),
                   !.store_expires_at = update_expiry(d.store_expires_at, t, days)]
    ELSE d

\* mutant of persistence_unregister: the key is not removed
persistence_unregister_keep(d, k) == d

persistence_unregister(d, k) == [d EXCEPT !.properties = MapRemove(d.properties, k)]

\* Persistence::set_event_timer: HashMap::insert, one timer per event name
\* mutant of persistence_set_event_timer: an open timer keeps its start
persistence_set_event_timer_once(d, event_name, timestamp) ==
    IF event_name \in DOMAIN d.event_timers
    THEN d
    ELSE [d EXCEPT !.event_timers = MapInsert(@, event_name, timestamp)]

persistence_set_event_timer(d, event_name, timestamp) ==
    [d EXCEPT !.event_timers = MapInsert(@, event_name, timestamp)]

\* ---------------------------------------------------- Persistence: reads
persistence_get_properties(d, t) == IF is_expired(d, t) THEN EmptyMap ELSE d.properties

persistence_get_property(d, t, k) == IF is_expired(d, t) THEN {} ELSE MapGet(d.properties, k)

persistence_get_distinct_id(d) == d.distinct_id

\* mutant of state_get_property: the overlay first, then the persistent store
state_get_property_overlay_first(d, sp, t, k) ==
    IF MapGet(sp, k) # {}
    THEN MapGet(sp, k)
    ELSE persistence_get_property(d, t, k)

\* MixpanelState::get_property: the persistent store first, then the overlay
state_get_property(d, sp, t, k) ==
    IF persistence_get_property(d, t, k) # {}
    THEN persistence_get_property(d, t, k)
    ELSE MapGet(sp, k)

\* ------------------------------------------------------ the backing file
\* The file is a sequence of chunks; chunk i of the serialization of record d
\* is [of |-> d, part |-> i]; a hole left by a write past the end reads as Nul.
Nul == [of |-> PersistentDataDefault, part |-> 0]

NoFile == [exists |-> FALSE, content |-> <<>>]

\* serde_json::to_string_pretty
to_string_pretty(d) == [i \in 1..NChunks |-> [of |-> d, part |-> i]]

\* serde_json::from_str: Ok(d) as {d}, a parse error as {}
from_str(contents) ==
    IF /\ Len(contents) = NChunks
       /\ \A i \in 1..NChunks : contents[i].part = i /\ contents[i].of = contents[1].of
    THEN {contents[1].of}
    ELSE {}

\* File::create: creates the file, or truncates the one that exists
file_create(f) == [exists |-> TRUE, content |-> <<>>]

\* one write of a chunk at the handle's own offset
file_write(f, pos, chunk) ==
    IF pos <= Len(f.content)
    THEN [f EXCEPT !.content = [f.content EXCEPT ![pos] = chunk]]
    ELSE [f EXCEPT !.content =
             f.content \o [i \in 1..(pos - 1 - Len(f.content)) |-> Nul] \o <<chunk>>]

\* mutant of load_sync: a record that expires exactly at load time is kept
load_sync_strict(f, t, readable) ==
    IF ~f.exists THEN [ok |-> TRUE, data |-> PersistentDataDefault]
    ELSE IF ~readable THEN [ok |-> FALSE, data |-> PersistentDataDefault]
    ELSE IF from_str(f.content) = {} THEN [ok |-> FALSE, data |-> PersistentDataDefault]
    ELSE LET d == Unwrap(from_str(f.content)) IN
         IF \E expires_at \in d.store_expires_at : t > expires_at
         THEN [ok |-> TRUE, data |-> PersistentDataDefault]
         ELSE [ok |-> TRUE, data |-> d]

\* Persistence::load_sync: [ok, data]; readable is the outcome of read_to_string
load_sync(f, t, readable) ==
    IF ~f.exists THEN [ok |-> TRUE, data |-> PersistentDataDefault]
    ELSE IF ~readable THEN [ok |-> FALSE, data |-> PersistentDataDefault]
    ELSE IF from_str(f.content) = {} THEN [ok |-> FALSE, data |-> PersistentDataDefault]
    ELSE LET d == Unwrap(from_str(f.content)) IN
         IF \E expires_at \in d.store_expires_at : t >= expires_at
         THEN [ok |-> TRUE, data |-> PersistentDataDefault]
         ELSE [ok |-> TRUE, data |-> d]

\* Persistence::new
persistence_new(f, t, readable) ==
    IF load_sync(f, t, readable).ok
    THEN load_sync(f, t, readable).data
    ELSE PersistentDataDefault

\* read_test_file of the tests: the record a reload parses, expiry aside
read_test_file(f) ==
    IF ~f.exists THEN {PersistentDataDefault} ELSE from_str(f.content)

\* ------------------------------------------------------------- the state
VARIABLES
    data,              \* Persistence.data: the in-memory PersistentData
    super_properties,  \* MixpanelState.super_properties: the overlay
    now,               \* current_time_millis()
    file,              \* the backing file at Persistence.path
    tasks,             \* detached tasks spawned and not finished, in spawn order
    last,              \* name of the last call made
    lock,              \* the RwLock around data: its writer and its readers
    thr,               \* the callers that take the lock step by step
    sent,              \* the events the last call handed to Mixpanel::track, in order
    result,            \* what the last call returned: "Ok" or "Err"
    args,              \* the arguments of the last identify, alias, reset or new
    old,               \* what that call read first: the distinct_id and the $alias
    engage,            \* the requests the last people or group call handed to the client
    removed_timer,     \* the timer the last track took out, or time_event replaced
    req                \* Mixpanel::send_request: where its retry loop stands

vars == <<data, super_properties, now, file, tasks, last, lock, thr, sent, result, args, old, engage, removed_timer, req>>

Threads == {"t1", "t2"}

Unlocked == [writer |-> {}, readers |-> {}]
NoArgs == [id |-> {}, original |-> {}]
NoOld == [distinct_id |-> {}, alias |-> {}]
Idle == [pc |-> "idle", todo |-> EmptyMap, days |-> {}, obs |-> EmptyMap]
\* no send_request has been called
NoRequest == [pc |-> "idle", max_retries |-> 0, retry_base_delay_ms |-> 0, overflow_checks |-> FALSE,
              retries |-> 0, attempts |-> 0, slept |-> 0, wait_time |-> {}, last_error |-> {}, result |-> {}]

\* a save task: pc = 0 before File::create, then the next chunk to write;
\* linked is FALSE once the file its handle is open on has been removed
SaveTask(d) == [kind |-> "save", snap |-> d, pc |-> 0, linked |-> TRUE]
DeleteTask == [kind |-> "delete", snap |-> PersistentDataDefault, pc |-> 0, linked |-> TRUE]

RemoveAt(s, i) == [j \in 1..(Len(s) - 1) |-> IF j < i THEN s[j] ELSE s[j + 1]]

\* Persistence::trigger_save: clone the record, spawn the write
trigger_save(ts, d) == Append(ts, SaveTask(d))

Init ==
    /\ data = persistence_new(NoFile, 0, TRUE)
    /\ super_properties = EmptyMap
    /\ now = 0
    /\ file = NoFile
    /\ tasks = <<>>
    /\ last = "new"
    /\ lock = Unlocked
    /\ thr = [t \in Threads |-> Idle]
    /\ sent = <<>>
    /\ result = "Ok"
    /\ args = NoArgs
    /\ old = NoOld
    /\ engage = <<>>
    /\ removed_timer = {}
    /\ req = NoRequest

\* ----------------------------------------------------- detached tasks
\* write_data_async, File::create
SaveCreate(i) ==
    /\ i \in 1..Len(tasks)
    /\ tasks[i].kind = "save"
    /\ tasks[i].pc = 0
    /\ file' = file_create(file)
    /\ tasks' = [tasks EXCEPT ![i].pc = 1, ![i].linked = TRUE]
    /\ UNCHANGED <<data, super_properties, now, last, lock, thr, sent, result, args, old, engage, removed_timer, req>>

\* write_data_async, write_all: one chunk; the task ends after the last one
SaveWrite(i) ==
    /\ i \in 1..Len(tasks)
    /\ tasks[i].kind = "save"
    /\ tasks[i].pc >= 1
    /\ file' = IF tasks[i].linked
               THEN file_write(file, tasks[i].pc, to_string_pretty(tasks[i].snap)[tasks[i].pc])
               ELSE file
    /\ tasks' = IF tasks[i].pc = NChunks
                THEN RemoveAt(tasks, i)
                ELSE [tasks EXCEPT ![i].pc = tasks[i].pc + 1]
    /\ UNCHANGED <<data, super_properties, now, last, lock, thr, sent, result, args, old, engage, removed_timer, req>>

\* the task of clear_all_data: fs::remove_file
DeleteRun(i) ==
    /\ i \in 1..Len(tasks)
    /\ tasks[i].kind = "delete"
    /\ file' = NoFile
    /\ tasks' = RemoveAt([j \in 1..Len(tasks) |->
                            IF tasks[j].kind = "save" /\ tasks[j].pc >= 1
                            THEN [tasks[j] EXCEPT !.linked = FALSE]
                            ELSE tasks[j]], i)
    /\ UNCHANGED <<data, super_properties, now, last, lock, thr, sent, result, args, old, engage, removed_timer, req>>

\* ------------------------------------------------------------- the calls
\* MixpanelState::register -> Persistence::register, or the overlay
Register(persistent, props, days) ==
    /\ last' = "register"
    /\ Len(tasks) < MaxTasks
    /\ IF persistent
       THEN /\ data' = persistence_register(data, now, props, days)
            /\ tasks' = trigger_save(tasks, data')
            /\ UNCHANGED super_properties
       ELSE /\ super_properties' = MapExtend(super_properties, props)
            /\ UNCHANGED <<data, tasks>>
    /\ UNCHANGED <<now, file, lock, thr, sent, result, args, old, engage, removed_timer, req>>

\* MixpanelState::register_once -> Persistence::register_once, or the overlay
RegisterOnce(persistent, props, default_value, days) ==
    /\ last' = "register_once"
    /\ Len(tasks) < MaxTasks
    /\ IF persistent
       THEN /\ data' = persistence_register_once(data, now, props, default_value, days)
            /\ tasks' = IF once_changed(data.properties, props, default_value)
                        THEN trigger_save(tasks, data')
                        ELSE tasks
            /\ UNCHANGED super_properties
       ELSE /\ super_properties' = once_props(super_properties, props, default_value)
            /\ UNCHANGED <<data, tasks>>
    /\ UNCHANGED <<now, file, lock, thr, sent, result, args, old, engage, removed_timer, req>>

\* MixpanelState::unregister -> Persistence::unregister, or the overlay
Unregister(persistent, k) ==
    /\ last' = "unregister"
    /\ Len(tasks) < MaxTasks
    /\ IF persistent
       THEN /\ data' = persistence_unregister(data, k)
            /\ tasks' = IF k \in DOMAIN data.properties
                        THEN trigger_save(tasks, data')
                        ELSE tasks
            /\ UNCHANGED super_properties
       ELSE /\ super_properties' = MapRemove(super_properties, k)
            /\ UNCHANGED <<data, tasks>>
    /\ UNCHANGED <<now, file, lock, thr, sent, result, args, old, engage, removed_timer, req>>

\* Persistence::set_distinct_id
SetDistinctId(id) ==
    /\ last' = "set_distinct_id"
    /\ Len(tasks) < MaxTasks
    /\ data' = [data EXCEPT !.distinct_id = id]
    /\ tasks' = trigger_save(tasks, data')
    /\ UNCHANGED <<super_properties, now, file, lock, thr, sent, result, args, old, engage, removed_timer, req>>

\* MixpanelState::time_event -> Persistence::set_event_timer
TimeEvent(e) ==
    /\ last' = "time_event"
    /\ Len(tasks) < MaxTasks
    /\ data' = persistence_set_event_timer(data, e, now)
    /\ tasks' = trigger_save(tasks, data')
    /\ removed_timer' = MapGet(data.event_timers, e)
    /\ UNCHANGED <<super_properties, now, file, lock, thr, sent, result, args, old, engage, req>>

\* Persistence::remove_event_timer
RemoveEventTimer(e) ==
    /\ last' = "remove_event_timer"
    /\ Len(tasks) < MaxTasks
    /\ data' = [data EXCEPT !.event_timers = MapRemove(data.event_timers, e)]
    /\ tasks' = IF e \in DOMAIN data.event_timers
                THEN trigger_save(tasks, data')
                ELSE tasks
    /\ UNCHANGED <<super_properties, now, file, lock, thr, sent, result, args, old, engage, removed_timer, req>>

\* Persistence::clear_all_data
ClearAllData ==
    /\ last' = "clear_all_data"
    /\ Len(tasks) + 2 <= MaxTasks
    /\ data' = PersistentDataDefault
    /\ tasks' = Append(trigger_save(tasks, data'), DeleteTask)
    /\ UNCHANGED <<super_properties, now, file, lock, thr, sent, result, args, old, engage, removed_timer, req>>

\* the clock advances
Tick ==
    /\ now < MaxNow
    /\ now' = now + 1
    /\ UNCHANGED <<data, super_properties, file, tasks, last, lock, thr, sent, result, args, old, engage, removed_timer, req>>

\* the process ends (a crash or an exit, at any step of the detached tasks)
\* and starts again: Persistence::new on the file as it is
Restart(readable) ==
    /\ last' = "new"
    /\ data' = persistence_new(file, now, readable)
    /\ super_properties' = EmptyMap
    /\ tasks' = <<>>
    /\ UNCHANGED <<now, file, lock, thr, sent, result, args, old, engage, removed_timer, req>>

\* ------------------------------------- the calls, one lock step at a time
\* RwLock::read succeeds when no writer holds the lock, RwLock::write when
\* nobody holds it
\* mutant of rwlock_can_read: a reader does not wait for the writer
rwlock_can_read_any(l) == TRUE

rwlock_can_read(l) == l.writer = {}
rwlock_can_write(l) == l.writer = {} /\ l.readers = {}

\* Persistence::register, self.data.write()
RegisterLock(t, props, days) ==
    /\ thr[t].pc = "idle"
    /\ rwlock_can_write(lock)
    /\ lock' = [lock EXCEPT !.writer = {t}]
    /\ thr' = [thr EXCEPT ![t] = [@ EXCEPT !.pc = "extend", !.todo = props, !.days = days]]
    /\ last' = "register"
    /\ UNCHANGED <<data, super_properties, now, file, tasks, sent, result, args, old, engage, removed_timer, req>>

\* Persistence::register, properties.extend(props): one insertion
RegisterExtend(t) ==
    /\ thr[t].pc = "extend"
    /\ \E k \in DOMAIN thr[t].todo :
          /\ data' = [data EXCEPT !.properties = MapInsert(@, k, thr[t].todo[k])]
          /\ thr' = [thr EXCEPT ![t].todo = MapRemove(@, k)]
    /\ UNCHANGED <<super_properties, now, file, tasks, last, lock, sent, result, args, old, engage, removed_timer, req>>

\* Persistence::register, the expiry update and drop(data_guard)
RegisterUnlock(t) ==
    /\ thr[t].pc = "extend"
    /\ thr[t].todo = EmptyMap
    /\ data' = [data EXCEPT !.store_expires_at = update_expiry(@, now, thr[t].days)]
    /\ lock' = [lock EXCEPT !.writer = {}]
    /\ thr' = [thr EXCEPT ![t].pc = "save"]
    /\ UNCHANGED <<super_properties, now, file, tasks, last, sent, result, args, old, engage, removed_timer, req>>

\* Persistence::trigger_save, self.data.read()
SaveLock(t) ==
    /\ thr[t].pc = "save"
    /\ rwlock_can_read(lock)
    /\ lock' = [lock EXCEPT !.readers = @ \cup {t}]
    /\ thr' = [thr EXCEPT ![t].pc = "clone"]
    /\ UNCHANGED <<data, super_properties, now, file, tasks, last, sent, result, args, old, engage, removed_timer, req>>

\* Persistence::trigger_save, data_guard.clone(), spawn, and the guard's drop
SaveClone(t) ==
    /\ thr[t].pc = "clone"
    /\ Len(tasks) < MaxTasks
    /\ tasks' = trigger_save(tasks, data)
    /\ lock' = [lock EXCEPT !.readers = @ \ {t}]
    /\ thr' = [thr EXCEPT ![t].pc = "idle"]
    /\ UNCHANGED <<data, super_properties, now, file, last, sent, result, args, old, engage, removed_timer, req>>

\* Persistence::get_properties, self.data.read()
ReadLock(t) ==
    /\ thr[t].pc = "idle"
    /\ rwlock_can_read(lock)
    /\ lock' = [lock EXCEPT !.readers = @ \cup {t}]
    /\ thr' = [thr EXCEPT ![t].pc = "read"]
    /\ UNCHANGED <<data, super_properties, now, file, tasks, last, sent, result, args, old, engage, removed_timer, req>>

\* Persistence::get_properties, the clone under the guard and the guard's drop
ReadClone(t) ==
    /\ thr[t].pc = "read"
    /\ lock' = [lock EXCEPT !.readers = @ \ {t}]
    /\ thr' = [thr EXCEPT ![t].pc = "idle", ![t].obs = persistence_get_properties(data, now)]
    /\ UNCHANGED <<data, super_properties, now, file, tasks, last, sent, result, args, old, engage, removed_timer, req>>

\* ------------------------------------------------------------- identity
\* ids are strings; the device-fallback id is format!("$device:{}", machine_id)
MachineIds == {"m"}
UserIds == {"u1", "u2"}

format_device(machine_id) == "$device:" \o machine_id

\* str::starts_with("$device:"), over the ids the model forms
\* mutant of starts_with_device: no id counts as device-prefixed
starts_with_never(id) == FALSE

starts_with_device(id) == \E rest \in MachineIds \cup UserIds : id = "$device:" \o rest

IdentIds == UserIds \cup {format_device(machine_id) : machine_id \in MachineIds}

\* Mixpanel::track of the client: the library properties are put on top of
\* the properties given and the event is handed to send_request
client_track(event, properties) ==
    [event |-> event,
     properties |-> MapExtend(properties,
                        ("token" :> "T") @@ ("mp_lib" :> "rust") @@ ("$lib_version" :> "V"))]

\* the calls of MixpanelState with options None (the persistent store), on
\* st = [data, sp, tasks, sent]: the record, the overlay, the detached tasks
\* and the events handed to the client
\* mutant of state_register: the identity keys are filtered out
state_register_filtered(st, t, props) ==
    LET kept == [k \in DOMAIN props \ {"distinct_id", "token", "$device_id", "$user_id",
                                       "$had_persisted_distinct_id"} |-> props[k]]
        d == persistence_register(st.data, t, kept, {})
    IN  [st EXCEPT !.data = d, !.tasks = trigger_save(@, d)]

state_register(st, t, props) ==
    LET d == persistence_register(st.data, t, props, {})
    IN  [st EXCEPT !.data = d, !.tasks = trigger_save(@, d)]

state_register_once(st, t, props) ==
    LET d == persistence_register_once(st.data, t, props, {}, {})
    IN  [st EXCEPT !.data = d,
                   !.tasks = IF once_changed(st.data.properties, props, {})
                             THEN trigger_save(@, d)
                             ELSE @]

state_unregister(st, k) ==
    LET d == persistence_unregister(st.data, k)
    IN  [st EXCEPT !.data = d,
                   !.tasks = IF k \in DOMAIN st.data.properties
                             THEN trigger_save(@, d)
                             ELSE @]

state_set_distinct_id(st, id) ==
    LET d == [st.data EXCEPT !.distinct_id = id]
    IN  [st EXCEPT !.data = d, !.tasks = trigger_save(@, d)]

\* mutant of state_track: the event is not handed to the client
state_track_drop(st, event, properties) == st

state_track(st, event, properties) ==
    [st EXCEPT !.sent = Append(@, client_track(event, properties))]

\* mutant of identify_device_props: the previous id is recorded every time
identify_device_props_always(st, t, old_distinct_id_opt) ==
    IF old_distinct_id_opt # {}
    THEN state_register(st, t,
             ("$device_id" :> Unwrap(old_distinct_id_opt))
                 @@ ("$had_persisted_distinct_id" :> TRUE))
    ELSE st

\* MixpanelState::identify, the $device_id step
identify_device_props(st, t, old_distinct_id_opt) ==
    IF persistence_get_property(st.data, t, "$device_id") = {} /\ old_distinct_id_opt # {}
    THEN state_register_once(st, t,
             ("$device_id" :> Unwrap(old_distinct_id_opt))
                 @@ ("$had_persisted_distinct_id" :> TRUE))
    ELSE st

\* mutant of identify_clear_alias: the pending alias is never removed
identify_keep_alias(st, old_alias_opt, new_distinct_id) == st

\* MixpanelState::identify, the $alias step
identify_clear_alias(st, old_alias_opt, new_distinct_id) ==
    IF old_alias_opt # {new_distinct_id} /\ old_alias_opt # {}
    THEN state_unregister(st, "$alias")
    ELSE st

\* mutant of identify: the comparison with the current id is left out
identify_always(st, t, new_distinct_id, net) ==
    LET old_distinct_id_opt == persistence_get_distinct_id(st.data)
        s2 == state_register(st, t, "$user_id" :> new_distinct_id)
        s4 == state_set_distinct_id(s2, {new_distinct_id})
        s5 == state_register(s4, t, "distinct_id" :> new_distinct_id)
    IN  IF old_distinct_id_opt = {}
        THEN [st |-> s5, result |-> "Ok"]
        ELSE [st |-> state_track(s5, "$identify",
                         ("distinct_id" :> new_distinct_id)
                             @@ ("$anon_distinct_id" :> Unwrap(old_distinct_id_opt))),
              result |-> IF net THEN "Ok" ELSE "Err"]

\* mutant of identify: $identify is sent first and a failed send leaves the
\* identity as it was
identify_send_first(st, t, new_distinct_id, net) ==
    LET old_distinct_id_opt == persistence_get_distinct_id(st.data)
        old_alias_opt == state_get_property(st.data, st.sp, t, "$alias")
    IN  IF old_distinct_id_opt = {new_distinct_id}
        THEN [st |-> st, result |-> "Ok"]
        ELSE IF starts_with_device(new_distinct_id)
        THEN [st |-> st, result |-> "Ok"]
        ELSE IF old_distinct_id_opt # {} /\ ~net
        THEN [st |-> state_track(st, "$identify",
                         ("distinct_id" :> new_distinct_id)
                             @@ ("$anon_distinct_id" :> Unwrap(old_distinct_id_opt))),
              result |-> "Err"]
        ELSE LET s1 == identify_clear_alias(st, old_alias_opt, new_distinct_id)
                 s2 == state_register(s1, t, "$user_id" :> new_distinct_id)
                 s3 == identify_device_props(s2, t, old_distinct_id_opt)
                 s4 == state_set_distinct_id(s3, {new_distinct_id})
                 s5 == state_register(s4, t, "distinct_id" :> new_distinct_id)
             IN  IF old_distinct_id_opt = {}
                 THEN [st |-> s5, result |-> "Ok"]
                 ELSE [st |-> state_track(s5, "$identify",
                                  ("distinct_id" :> new_distinct_id)
                                      @@ ("$anon_distinct_id" :> Unwrap(old_distinct_id_opt))),
                       result |-> "Ok"]

\* MixpanelState::identify; net is the outcome of the send of $identify
identify(st, t, new_distinct_id, net) ==
    LET old_distinct_id_opt == persistence_get_distinct_id(st.data)
        old_alias_opt == state_get_property(st.data, st.sp, t, "$alias")
    IN  IF old_distinct_id_opt = {new_distinct_id}
        THEN [st |-> st, result |-> "Ok"]
        ELSE IF starts_with_device(new_distinct_id)
        THEN [st |-> st, result |-> "Ok"]
        ELSE LET s1 == identify_clear_alias(st, old_alias_opt, new_distinct_id)
                 s2 == state_register(s1, t, "$user_id" :> new_distinct_id)
                 s3 == identify_device_props(s2, t, old_distinct_id_opt)
                 s4 == state_set_distinct_id(s3, {new_distinct_id})
                 s5 == state_register(s4, t, "distinct_id" :> new_distinct_id)
             IN  IF old_distinct_id_opt = {}
                 THEN [st |-> s5, result |-> "Ok"]
                 ELSE [st |-> state_track(s5, "$identify",
                                  ("distinct_id" :> new_distinct_id)
                                      @@ ("$anon_distinct_id" :> Unwrap(old_distinct_id_opt))),
                       result |-> IF net THEN "Ok" ELSE "Err"]

\* mutant of alias: the check against $people_distinct_id is left out
alias_unchecked(st, t, new_alias, original, net1, net2) ==
    LET cur == persistence_get_distinct_id(st.data)
    IN  IF original = {} /\ cur = {}
        THEN [st |-> st, result |-> "Err"]
        ELSE LET original_id == IF original # {} THEN Unwrap(original) ELSE Unwrap(cur)
             IN  IF new_alias = original_id
                 THEN identify(st, t, new_alias, net1)
                 ELSE LET s1 == state_register(st, t, "$alias" :> new_alias)
                          s2 == state_track(s1, "$create_alias",
                                    ("alias" :> new_alias) @@ ("distinct_id" :> original_id))
                      IN  IF ~net1
                          THEN [st |-> s2, result |-> "Err"]
                          ELSE identify(s2, t, new_alias, net2)

\* mutant of alias: an alias equal to the original id takes the remote path
alias_no_skip(st, t, new_alias, original, net1, net2) ==
    LET cur == persistence_get_distinct_id(st.data)
    IN  IF original = {} /\ cur = {}
        THEN [st |-> st, result |-> "Err"]
        ELSE LET original_id == IF original # {} THEN Unwrap(original) ELSE Unwrap(cur)
             IN  IF persistence_get_property(st.data, t, "$people_distinct_id") = {new_alias}
                 THEN [st |-> st, result |-> "Err"]
                 ELSE LET s1 == state_register(st, t, "$alias" :> new_alias)
                          s2 == state_track(s1, "$create_alias",
                                    ("alias" :> new_alias) @@ ("distinct_id" :> original_id))
                      IN  IF ~net1
                          THEN [st |-> s2, result |-> "Err"]
                          ELSE identify(s2, t, new_alias, net2)

\* mutant of alias: identify runs before the $create_alias event is sent
alias_identify_first(st, t, new_alias, original, net1, net2) ==
    LET cur == persistence_get_distinct_id(st.data)
    IN  IF original = {} /\ cur = {}
        THEN [st |-> st, result |-> "Err"]
        ELSE LET original_id == IF original # {} THEN Unwrap(original) ELSE Unwrap(cur)
             IN  IF new_alias = original_id
                 THEN identify(st, t, new_alias, net1)
                 ELSE IF persistence_get_property(st.data, t, "$people_distinct_id") = {new_alias}
                 THEN [st |-> st, result |-> "Err"]
                 ELSE LET s1 == state_register(st, t, "$alias" :> new_alias)
                          s2 == identify(s1, t, new_alias, net2).st
                      IN  [st |-> state_track(s2, "$create_alias",
                                      ("alias" :> new_alias) @@ ("distinct_id" :> original_id)),
                           result |-> IF net1 THEN "Ok" ELSE "Err"]

\* MixpanelState::alias; net1 and net2 are the outcomes of its sends, in order
alias(st, t, new_alias, original, net1, net2) ==
    LET cur == persistence_get_distinct_id(st.data)
    IN  IF original = {} /\ cur = {}
        THEN [st |-> st, result |-> "Err"]
        ELSE LET original_id == IF original # {} THEN Unwrap(original) ELSE Unwrap(cur)
             IN  IF new_alias = original_id
                 THEN identify(st, t, new_alias, net1)
                 ELSE IF persistence_get_property(st.data, t, "$people_distinct_id") = {new_alias}
                 THEN [st |-> st, result |-> "Err"]
                 ELSE LET s1 == state_register(st, t, "$alias" :> new_alias)
                          s2 == state_track(s1, "$create_alias",
                                    ("alias" :> new_alias) @@ ("distinct_id" :> original_id))
                      IN  IF ~net1
                          THEN [st |-> s2, result |-> "Err"]
                          ELSE identify(s2, t, new_alias, net2)

\* MixpanelState::reset; machine is the outcome of machine_uid::get
reset(st, t, machine) ==
    LET s1 == [st EXCEPT !.data = PersistentDataDefault,
                         !.tasks = Append(trigger_save(@, PersistentDataDefault), DeleteTask)]
        s2 == [s1 EXCEPT !.sp = EmptyMap]
    IN  IF machine = {}
        THEN [st |-> s2, result |-> "Err"]
        ELSE [st |-> state_register_once(s2, t,
                         ("distinct_id" :> format_device(Unwrap(machine)))
                             @@ ("$device_id" :> Unwrap(machine))),
              result |-> "Ok"]

\* mutant of gather_initial_properties: the device id replaces a loaded id
gather_initial_properties_fresh(st, t, machine_id, webview) ==
    LET device_id_on_load == persistence_get_property(st.data, t, "$device_id")
        s1 == state_set_distinct_id(st, {format_device(machine_id)})
        id_props == "distinct_id" :> format_device(machine_id)
        device_props == IF device_id_on_load = {} THEN "$device_id" :> machine_id ELSE EmptyMap
        version_props == IF webview # {} THEN "$browser_version" :> Unwrap(webview) ELSE EmptyMap
    IN  [st |-> s1,
         props |-> id_props @@ device_props @@ ("$os" :> "Linux")
                       @@ ("$browser" :> "Tauri WebView") @@ version_props]

\* MixpanelState::gather_initial_properties: the record after set_distinct_id
\* and the properties to register; webview is the outcome of webview_version
gather_initial_properties(st, t, machine_id, webview) ==
    LET distinct_id_on_load == persistence_get_distinct_id(st.data)
        device_id_on_load == persistence_get_property(st.data, t, "$device_id")
        s1 == IF distinct_id_on_load = {}
              THEN state_set_distinct_id(st, {format_device(machine_id)})
              ELSE st
        id_props == IF distinct_id_on_load = {}
                    THEN "distinct_id" :> format_device(machine_id)
                    ELSE EmptyMap
        device_props == IF device_id_on_load = {} THEN "$device_id" :> machine_id ELSE EmptyMap
        version_props == IF webview # {} THEN "$browser_version" :> Unwrap(webview) ELSE EmptyMap
    IN  [st |-> s1,
         props |-> id_props @@ device_props @@ ("$os" :> "Linux")
                       @@ ("$browser" :> "Tauri WebView") @@ version_props]

\* mutant of mixpanel_state_new: the set-up starts from the default record
mixpanel_state_new_unloaded(f, t, readable, machine_id, webview) ==
    LET st0 == [data |-> PersistentDataDefault, sp |-> EmptyMap,
                tasks |-> <<>>, sent |-> <<>>, engage |-> <<>>]
        g == gather_initial_properties(st0, t, machine_id, webview)
    IN  IF g.props # EmptyMap THEN state_register(g.st, t, g.props) ELSE g.st

\* MixpanelState::new: load the file, gather and register the initial properties
mixpanel_state_new(f, t, readable, machine_id, webview) ==
    LET st0 == [data |-> persistence_new(f, t, readable), sp |-> EmptyMap,
                tasks |-> <<>>, sent |-> <<>>, engage |-> <<>>]
        g == gather_initial_properties(st0, t, machine_id, webview)
    IN  IF g.props # EmptyMap THEN state_register(g.st, t, g.props) ELSE g.st

\* the state the calls work on, with no event handed over yet
StateNow ==
    [data |-> data, sp |-> super_properties, tasks |-> tasks, sent |-> <<>>,
     engage |-> <<>>]

\* what identify reads first: old_distinct_id_opt and old_alias_opt
OldNow ==
    [distinct_id |-> persistence_get_distinct_id(data),
     alias |-> state_get_property(data, super_properties, now, "$alias")]

\* MixpanelState::identify
Identify(new_distinct_id, net) ==
    /\ last' = "identify"
    /\ LET r == identify(StateNow, now, new_distinct_id, net)
       IN  /\ data' = r.st.data
           /\ super_properties' = r.st.sp
           /\ tasks' = r.st.tasks
           /\ sent' = r.st.sent
           /\ result' = r.result
    /\ args' = [id |-> {new_distinct_id}, original |-> {}]
    /\ old' = OldNow
    /\ UNCHANGED <<now, file, lock, thr, engage, removed_timer, req>>

\* MixpanelState::alias
Alias(new_alias, original, net1, net2) ==
    /\ last' = "alias"
    /\ LET r == alias(StateNow, now, new_alias, original, net1, net2)
       IN  /\ data' = r.st.data
           /\ super_properties' = r.st.sp
           /\ tasks' = r.st.tasks
           /\ sent' = r.st.sent
           /\ result' = r.result
    /\ args' = [id |-> {new_alias}, original |-> original]
    /\ old' = OldNow
    /\ UNCHANGED <<now, file, lock, thr, engage, removed_timer, req>>

\* MixpanelState::reset
Reset(machine) ==
    /\ last' = "reset"
    /\ LET r == reset(StateNow, now, machine)
       IN  /\ data' = r.st.data
           /\ super_properties' = r.st.sp
           /\ tasks' = r.st.tasks
           /\ sent' = r.st.sent
           /\ result' = r.result
    /\ args' = [id |-> machine, original |-> {}]
    /\ old' = OldNow
    /\ UNCHANGED <<now, file, lock, thr, engage, removed_timer, req>>

\* the process ends at any step of the detached tasks and the plugin is set
\* up again: MixpanelState::new on the file as it is (setup panics when the
\* machine id cannot be read, so there is no state to speak of in that case)
New(readable, machine_id, webview) ==
    /\ last' = "new"
    /\ LET s == mixpanel_state_new(file, now, readable, machine_id, webview)
       IN  /\ data' = s.data
           /\ super_properties' = s.sp
           /\ tasks' = s.tasks
           /\ sent' = s.sent
    /\ result' = "Ok"
    /\ args' = [id |-> {machine_id}, original |-> {}]
    /\ old' = [distinct_id |-> persistence_new(file, now, readable).distinct_id,
                alias |-> persistence_get_property(persistence_new(file, now, readable), now, "$alias")]
    /\ UNCHANGED <<now, file, lock, thr, engage, removed_timer, req>>

\* ------------------------------------------------------------- tracking
\* the wall clock steps back (SystemTime is not monotonic)
ClockBack ==
    /\ now > 0
    /\ now' = now - 1
    /\ UNCHANGED <<data, super_properties, file, tasks, last, lock, thr, sent, result, args, old, engage, removed_timer, req>>

\* the milliseconds since the epoch of the model time t (DayMillis units a day)
unix_millis(t) == t * ((24 * 60 * 60 * 1000) \div DayMillis)

\* Duration::as_secs
as_secs(ms) == ms \div 1000

\* (now_ms - start_time_ms) as f64 / 1000.0
duration_sec(now_ms, start_time_ms) == (now_ms - start_time_ms) \div 1000

\* the JSON values given as the properties of a call: kind is "null",
\* "object" or "string", and map holds the members of an object
JsonNull == [kind |-> "null", map |-> EmptyMap]
JsonObject(m) == [kind |-> "object", map |-> m]
JsonString == [kind |-> "string", map |-> EmptyMap]

\* MixpanelState::parse_props: Some(map), or None for the error
parse_props(value) ==
    IF value.kind = "object" THEN {value.map}
    ELSE IF value.kind = "null" THEN {EmptyMap}
    ELSE {}

\* mutant of state_remove_event_timer: the timer stays open
state_remove_event_timer_keep(st, event_name) == st

\* Persistence::remove_event_timer, saved only when a timer was removed
state_remove_event_timer(st, event_name) ==
    LET d == [st.data EXCEPT !.event_timers = MapRemove(@, event_name)]
    IN  IF event_name \in DOMAIN st.data.event_timers
        THEN [st EXCEPT !.data = d, !.tasks = trigger_save(@, d)]
        ELSE st

\* mutant of merge_props: the registered properties go on top of the call's
merge_props_registered_last(persistent_props, memory_props, input_props) ==
    MapExtend(MapExtend(input_props, persistent_props), memory_props)

\* final_props of track before the timer and the forced fields
merge_props(persistent_props, memory_props, input_props) ==
    MapExtend(MapExtend(persistent_props, memory_props), input_props)

\* track after its checks: the merged properties, the timer of the event,
\* the forced distinct_id and time, and the call of the client
track_send(st, t, event_name, input_props, distinct_id, net) ==
    LET merged == merge_props(persistence_get_properties(st.data, t), st.sp, input_props)
        start == MapGet(st.data.event_timers, event_name)
        s1 == state_remove_event_timer(st, event_name)
        timed == IF start # {} /\ unix_millis(t) >= unix_millis(Unwrap(start))
                 THEN MapInsert(merged, "$duration",
                                duration_sec(unix_millis(t), unix_millis(Unwrap(start))))
                 ELSE merged
        final_props == MapInsert(MapInsert(timed, "distinct_id", distinct_id),
                                 "time", as_secs(unix_millis(t)))
    IN  [st |-> state_track(s1, event_name, final_props),
         result |-> IF net THEN "Ok" ELSE "Err"]

\* mutant of track: an absent distinct_id does not stop the call
track_unchecked(st, t, event_name, properties, net) ==
    IF parse_props(properties) = {}
    THEN [st |-> st, result |-> "Err"]
    ELSE track_send(st, t, event_name, Unwrap(parse_props(properties)),
                    IF st.data.distinct_id = {} THEN "" ELSE Unwrap(st.data.distinct_id),
                    net)

\* MixpanelState::track; net tells whether the request of the client succeeds
track(st, t, event_name, properties, net) ==
    IF persistence_get_distinct_id(st.data) = {}
    THEN [st |-> st, result |-> "Err"]
    ELSE IF parse_props(properties) = {}
    THEN [st |-> st, result |-> "Err"]
    ELSE track_send(st, t, event_name, Unwrap(parse_props(properties)),
                    Unwrap(persistence_get_distinct_id(st.data)), net)

\* MixpanelState::track
Track(event_name, properties, net) ==
    /\ last' = "track"
    /\ LET r == track(StateNow, now, event_name, properties, net)
       IN  /\ data' = r.st.data
           /\ super_properties' = r.st.sp
           /\ tasks' = r.st.tasks
           /\ sent' = r.st.sent
           /\ result' = r.result
    /\ args' = [id |-> {event_name}, original |-> {}]
    /\ old' = OldNow
    /\ removed_timer' = {data.event_timers[e] :
                            e \in DOMAIN data.event_timers \ DOMAIN data'.event_timers}
    /\ UNCHANGED <<now, file, lock, thr, engage, req>>

\* ------------------------------------------------ track, step by step
\* track as its callers on several threads run it: the reads up to the
\* merged properties, then remove_event_timer (one critical section of the
\* write lock of the record), then the clock, $duration and the client.
\* A caller inside track holds what it has computed so far.
Tracking(event_name, final_props, distinct_id) ==
    [pc |-> "merged", event_name |-> event_name, final_props |-> final_props,
     distinct_id |-> distinct_id, start_time_ms |-> {}]

\* track up to final_props.extend(input_props); the two checks return early
TrackBegin(t, event_name, properties) ==
    /\ thr[t].pc = "idle"
    /\ Len(sent) + Cardinality({u \in Threads : thr[u].pc # "idle"}) < MaxSent
    /\ IF persistence_get_distinct_id(data) = {} \/ parse_props(properties) = {}
       THEN /\ last' = "track"
            /\ result' = "Err"
            /\ UNCHANGED thr
       ELSE /\ thr' = [thr EXCEPT ![t] =
                          Tracking(event_name,
                                   merge_props(persistence_get_properties(data, now),
                                               super_properties,
                                               Unwrap(parse_props(properties))),
                                   Unwrap(persistence_get_distinct_id(data)))]
            /\ UNCHANGED <<last, result>>
    /\ UNCHANGED <<data, super_properties, now, file, tasks, lock, sent, args, old, engage, removed_timer, req>>

\* self.persistence.remove_event_timer(&event_name): the timer is read and
\* removed under one write guard, the save is spawned after it
TrackTakeTimer(t) ==
    /\ thr[t].pc = "merged"
    /\ Len(tasks) < MaxTasks
    /\ LET s1 == state_remove_event_timer(StateNow, thr[t].event_name)
       IN  /\ data' = s1.data
           /\ tasks' = s1.tasks
    /\ thr' = [thr EXCEPT ![t] = [@ EXCEPT !.pc = "timed",
                                           !.start_time_ms = MapGet(data.event_timers, thr[t].event_name)]]
    /\ UNCHANGED <<super_properties, now, file, last, lock, sent, result, args, old, engage, removed_timer, req>>

\* the rest of track: $duration from the timer taken, distinct_id, time,
\* and the call of the client
TrackSend(t, net) ==
    /\ thr[t].pc = "timed"
    /\ LET start == thr[t].start_time_ms
           timed == IF start # {} /\ unix_millis(now) >= unix_millis(Unwrap(start))
                    THEN MapInsert(thr[t].final_props, "$duration",
                                   duration_sec(unix_millis(now), unix_millis(Unwrap(start))))
                    ELSE thr[t].final_props
           final_props == MapInsert(MapInsert(timed, "distinct_id", thr[t].distinct_id),
                                    "time", as_secs(unix_millis(now)))
       IN  sent' = Append(sent, client_track(thr[t].event_name, final_props))
    /\ thr' = [thr EXCEPT ![t] = Idle]
    /\ last' = "track"
    /\ result' = IF net THEN "Ok" ELSE "Err"
    /\ removed_timer' = thr[t].start_time_ms
    /\ UNCHANGED <<data, super_properties, now, file, tasks, lock, args, old, engage, req>>

\* time_event before the callers of track start
TimeEventFirst(e) ==
    /\ sent = <<>>
    /\ \A t \in Threads : thr[t].pc = "idle"
    /\ e \notin DOMAIN data.event_timers
    /\ TimeEvent(e)

\* --------------------------------------------------------------- people
\* the JSON values given to the people calls: kind is "null", "string",
\* "number" (an integer), "float" (a number that is no i64), "array" or
\* "object"; text is the scalar, items the elements, map the members
PNull == [kind |-> "null", text |-> "", items |-> <<>>, map |-> EmptyMap]
PStr(x) == [kind |-> "string", text |-> x, items |-> <<>>, map |-> EmptyMap]
PNum(x) == [kind |-> "number", text |-> x, items |-> <<>>, map |-> EmptyMap]
PFloat(x) == [kind |-> "float", text |-> x, items |-> <<>>, map |-> EmptyMap]
PArr(xs) == [kind |-> "array", text |-> "", items |-> xs, map |-> EmptyMap]
PObj(m) == [kind |-> "object", text |-> "", items |-> <<>>, map |-> m]

\* Value::is_number and Value::as_i64
is_number(v) == v.kind \in {"number", "float"}
as_i64(v) == IF v.kind = "number" THEN {v.text} ELSE {}

RESERVED_PROPERTIES ==
    {"$distinct_id", "$token", "$device_id", "$user_id", "$had_persisted_distinct_id"}

\* mutant of is_reserved_property: no key is reserved
is_reserved_never(prop) == FALSE

is_reserved_property(prop) == prop \in RESERVED_PROPERTIES

\* People::identify_called
identify_called(st) ==
    \E id \in persistence_get_distinct_id(st.data) : ~starts_with_device(id)

\* the request of the client's people calls: the token, the distinct_id and
\* the properties under the action
client_people(action, distinct_id, properties) ==
    ("$token" :> "T") @@ ("$distinct_id" :> distinct_id) @@ (action :> properties)

\* the map without the members under reserved keys
filter_reserved(m) == [k \in {x \in DOMAIN m : ~is_reserved_property(x)} |-> m[k]]

\* People::parse_and_filter_props: Some(map), or None for the error
parse_and_filter_props(value) ==
    IF value.kind = "object" THEN {filter_reserved(value.map)}
    ELSE IF value.kind = "null" THEN {EmptyMap}
    ELSE {}

\* mutant of people_send_request: the identified check is left out
people_send_request_unchecked(st, action, properties, net) ==
    IF persistence_get_distinct_id(st.data) = {}
    THEN [st |-> st, result |-> "Err"]
    ELSE [st |-> [st EXCEPT !.engage = Append(@,
                      client_people(action, Unwrap(persistence_get_distinct_id(st.data)),
                                    properties))],
          result |-> IF net THEN "Ok" ELSE "Err"]

\* People::send_request; net tells whether the request of the client succeeds
people_send_request(st, action, properties, net) ==
    IF ~identify_called(st)
    THEN [st |-> st, result |-> "Ok"]
    ELSE IF action = "$add" /\ \E k \in DOMAIN properties : as_i64(properties[k]) = {}
    THEN [st |-> st, result |-> "Err"]
    ELSE LET distinct_id == Unwrap(persistence_get_distinct_id(st.data))
             body == IF action = "$unset" THEN DOMAIN properties
                     ELSE IF action = "$delete" THEN ""
                     ELSE properties
         IN  [st |-> [st EXCEPT !.engage = Append(@, client_people(action, distinct_id, body))],
              result |-> IF net THEN "Ok" ELSE "Err"]

\* the body shared by set, set_once, append and remove: the properties of
\* an object, or the one member of key and value
people_key_value(st, action, prop, to, net) ==
    IF prop.kind = "object"
    THEN IF filter_reserved(prop.map) = EmptyMap
         THEN [st |-> st, result |-> "Ok"]
         ELSE people_send_request(st, action, filter_reserved(prop.map), net)
    ELSE IF prop.kind = "string"
    THEN IF is_reserved_property(prop.text)
         THEN [st |-> st, result |-> "Ok"]
         ELSE people_send_request(st, action,
                  prop.text :> (IF to = {} THEN PNull ELSE Unwrap(to)), net)
    ELSE [st |-> st, result |-> "Err"]

people_set(st, prop, to, net) == people_key_value(st, "$set", prop, to, net)

people_set_once(st, prop, to, net) == people_key_value(st, "$set_once", prop, to, net)

people_append(st, list_name, value, net) == people_key_value(st, "$append", list_name, value, net)

people_remove(st, list_name, value, net) == people_key_value(st, "$remove", list_name, value, net)

\* the string elements of an array that are not reserved
unset_keys(items) ==
    {items[i].text : i \in {j \in 1..Len(items) : ~is_reserved_property(items[j].text)}}

people_unset(st, prop, net) ==
    LET keys_to_unset ==
            IF prop.kind = "string"
            THEN IF is_reserved_property(prop.text) THEN {} ELSE {prop.text}
            ELSE unset_keys(prop.items)
    IN  IF prop.kind \notin {"string", "array"}
        THEN [st |-> st, result |-> "Err"]
        ELSE IF \E i \in 1..Len(prop.items) : prop.items[i].kind # "string"
        THEN [st |-> st, result |-> "Err"]
        ELSE IF keys_to_unset = {}
        THEN [st |-> st, result |-> "Ok"]
        ELSE people_send_request(st, "$unset", [k \in keys_to_unset |-> PNull], net)

\* mutant of increment_checked: the members that are no numbers are left out
increment_lenient(m) ==
    {[k \in {x \in DOMAIN filter_reserved(m) : is_number(m[x])} |-> m[k]]}

\* the object arm of increment: Some(filtered_map), or None for the error
increment_checked(m) ==
    IF \E k \in DOMAIN filter_reserved(m) : ~is_number(m[k])
    THEN {}
    ELSE {filter_reserved(m)}

people_increment(st, prop, by, net) ==
    IF prop.kind = "object"
    THEN IF increment_checked(prop.map) = {}
         THEN [st |-> st, result |-> "Err"]
         ELSE IF Unwrap(increment_checked(prop.map)) = EmptyMap
         THEN [st |-> st, result |-> "Ok"]
         ELSE people_send_request(st, "$add", Unwrap(increment_checked(prop.map)), net)
    ELSE IF prop.kind = "string"
    THEN IF is_reserved_property(prop.text)
         THEN [st |-> st, result |-> "Ok"]
         ELSE IF ~is_number(IF by = {} THEN PNum("1") ELSE Unwrap(by))
         THEN [st |-> st, result |-> "Err"]
         ELSE people_send_request(st, "$add",
                  prop.text :> (IF by = {} THEN PNum("1") ELSE Unwrap(by)), net)
    ELSE [st |-> st, result |-> "Err"]

\* mutant of as_array: the value is sent as it is
as_array_as_given(v) == v

\* a value as the array union sends: an array as it is, another value alone
as_array(v) == IF v.kind = "array" THEN v ELSE PArr(<<v>>)

people_union(st, list_name, values, net) ==
    IF list_name.kind = "object"
    THEN IF filter_reserved(list_name.map) = EmptyMap
         THEN [st |-> st, result |-> "Ok"]
         ELSE people_send_request(st, "$union",
                  [k \in DOMAIN filter_reserved(list_name.map) |-> as_array(list_name.map[k])],
                  net)
    ELSE IF list_name.kind = "string"
    THEN IF is_reserved_property(list_name.text)
         THEN [st |-> st, result |-> "Ok"]
         ELSE people_send_request(st, "$union",
                  list_name.text :> as_array(IF values = {} THEN PArr(<<>>) ELSE Unwrap(values)),
                  net)
    ELSE [st |-> st, result |-> "Err"]

people_delete_user(st, net) ==
    IF ~identify_called(st)
    THEN [st |-> st, result |-> "Ok"]
    ELSE people_send_request(st, "$delete", EmptyMap, net)

\* the people calls by name
PeopleOps == {"set", "set_once", "unset", "increment", "append", "remove", "union", "delete_user"}

people_call(st, op, prop, arg, net) ==
    CASE op = "set" -> people_set(st, prop, arg, net)
      [] op = "set_once" -> people_set_once(st, prop, arg, net)
      [] op = "unset" -> people_unset(st, prop, net)
      [] op = "increment" -> people_increment(st, prop, arg, net)
      [] op = "append" -> people_append(st, prop, arg, net)
      [] op = "remove" -> people_remove(st, prop, arg, net)
      [] op = "union" -> people_union(st, prop, arg, net)
      [] op = "delete_user" -> people_delete_user(st, net)

\* a call of People: op names the method, prop and arg are its arguments
People(op, prop, arg, net) ==
    /\ last' = op
    /\ LET r == people_call(StateNow, op, prop, arg, net)
       IN  /\ data' = r.st.data
           /\ super_properties' = r.st.sp
           /\ tasks' = r.st.tasks
           /\ engage' = r.st.engage
           /\ result' = r.result
    /\ sent' = <<>>
    /\ args' = [id |-> {prop}, original |-> arg]
    /\ old' = OldNow
    /\ UNCHANGED <<now, file, lock, thr, removed_timer, req>>

\* ------------------------------------- People::send_request, step by step
\* send_request reads the distinct_id twice: in identify_called and, after
\* that check, in get_distinct_id().ok_or_else(..). Each read takes the read
\* lock of the record on its own, so a call that writes the record (identify
\* at its set_distinct_id, reset at its clear_all_data) can come in between.
\* mutant of people_send_checked: an absent distinct_id is sent as ""
people_send_or_default(st, action, properties, net) ==
    LET found == persistence_get_distinct_id(st.data)
        distinct_id == IF found = {} THEN "" ELSE Unwrap(found)
        body == IF action = "$unset" THEN DOMAIN properties
                ELSE IF action = "$delete" THEN ""
                ELSE properties
    IN  [st |-> [st EXCEPT !.engage = Append(@, client_people(action, distinct_id, body))],
         result |-> IF net THEN "Ok" ELSE "Err"]

\* send_request after identify_called: get_distinct_id().ok_or_else(..)? and
\* the call of the client
people_send_checked(st, action, properties, net) ==
    LET found == persistence_get_distinct_id(st.data)
        body == IF action = "$unset" THEN DOMAIN properties
                ELSE IF action = "$delete" THEN ""
                ELSE properties
    IN  IF found = {}
        THEN [st |-> st, result |-> "Err"]
        ELSE [st |-> [st EXCEPT !.engage = Append(@, client_people(action, Unwrap(found), body))],
              result |-> IF net THEN "Ok" ELSE "Err"]

\* a caller inside send_request, past the identified check
Checked(action, properties) == [pc |-> "checked", action |-> action, properties |-> properties]

\* send_request up to the check: a caller that is not identified returns Ok
PeopleCheck(t, action, properties) ==
    /\ thr[t].pc = "idle"
    /\ Len(engage) + Cardinality({u \in Threads : thr[u].pc # "idle"}) < MaxSent
    /\ IF ~identify_called(StateNow)
       THEN /\ last' = "people_send_request"
            /\ result' = "Ok"
            /\ UNCHANGED thr
       ELSE /\ thr' = [thr EXCEPT ![t] = Checked(action, properties)]
            /\ UNCHANGED <<last, result>>
    /\ UNCHANGED <<data, super_properties, now, file, tasks, lock, sent, args, old, engage, removed_timer, req>>

\* send_request from the second read of the distinct_id on; the requests
\* the callers hand to the client are kept in engage, in order
PeopleSend(t, net) ==
    /\ thr[t].pc = "checked"
    /\ LET r == people_send_checked([StateNow EXCEPT !.engage = engage],
                                    thr[t].action, thr[t].properties, net)
       IN  /\ engage' = r.st.engage
           /\ result' = r.result
    /\ thr' = [thr EXCEPT ![t] = Idle]
    /\ last' = "people_send_request"
    /\ UNCHANGED <<data, super_properties, now, file, tasks, lock, sent, args, old, removed_timer, req>>

\* --------------------------------------------------------------- groups
\* the group calls with options of no days; persistent selects the store.
\* The value under a group key is the array of the group ids
GroupKeys == {"g"}
GroupIds == {PStr("x"), PStr("y")}

\* the ids of the array persisted under the key, the empty list without one
current_groups_of(st, t, group_key) ==
    IF persistence_get_property(st.data, t, group_key) = {}
    THEN <<>>
    ELSE Unwrap(persistence_get_property(st.data, t, group_key)).items

\* Vec::contains and Vec::retain
contains(xs, x) == \E i \in 1..Len(xs) : xs[i] = x
retain_not(xs, x) == SelectSeq(xs, LAMBDA y : y # x)

\* the registration of the list under the key in the chosen store
group_register(st, t, group_key, ids, persistent) ==
    IF persistent
    THEN state_register(st, t, group_key :> PArr(ids))
    ELSE [st EXCEPT !.sp = MapInsert(@, group_key, PArr(ids))]

\* MixpanelState::set_group
set_group(st, t, group_key, group_ids, persistent, net) ==
    IF group_ids.kind \notin {"array", "string", "number", "float"}
    THEN [st |-> st, result |-> "Err"]
    ELSE LET group_ids_array == IF group_ids.kind = "array"
                                THEN group_ids.items
                                ELSE <<group_ids>>
         IN  people_set(group_register(st, t, group_key, group_ids_array, persistent),
                        PObj(group_key :> PArr(group_ids_array)), {}, net)

\* MixpanelState::add_group
add_group(st, t, group_key, group_id, persistent, net) ==
    IF group_id.kind \notin {"string", "number", "float"}
    THEN [st |-> st, result |-> "Err"]
    ELSE LET current_groups == current_groups_of(st, t, group_key)
             s1 == IF contains(current_groups, group_id)
                   THEN st
                   ELSE group_register(st, t, group_key,
                                       Append(current_groups, group_id), persistent)
         IN  people_union(s1, PObj(group_key :> PArr(<<group_id>>)), {}, net)

\* MixpanelState::remove_group
remove_group(st, t, group_key, group_id, persistent, net) ==
    IF group_id.kind \notin {"string", "number", "float"}
    THEN [st |-> st, result |-> "Err"]
    ELSE LET current_groups == current_groups_of(st, t, group_key)
             kept == retain_not(current_groups, group_id)
             s1 == IF kept # <<>>
                   THEN group_register(st, t, group_key, kept, persistent)
                   ELSE IF persistent
                   THEN state_unregister(st, group_key)
                   ELSE [st EXCEPT !.sp = MapRemove(@, group_key)]
         IN  IF Len(kept) < Len(current_groups)
             THEN people_remove(s1, PObj(group_key :> group_id), {}, net)
             ELSE [st |-> st, result |-> "Ok"]

GroupOps == {"set_group", "add_group", "remove_group"}

group_call(st, t, op, group_key, value, persistent, net) ==
    CASE op = "set_group" -> set_group(st, t, group_key, value, persistent, net)
      [] op = "add_group" -> add_group(st, t, group_key, value, persistent, net)
      [] op = "remove_group" -> remove_group(st, t, group_key, value, persistent, net)

\* a group call of MixpanelState: op names the method
Group(op, group_key, value, persistent, net) ==
    /\ last' = op
    /\ LET r == group_call(StateNow, now, op, group_key, value, persistent, net)
       IN  /\ data' = r.st.data
           /\ super_properties' = r.st.sp
           /\ tasks' = r.st.tasks
           /\ engage' = r.st.engage
           /\ result' = r.result
    /\ sent' = <<>>
    /\ args' = [id |-> {value}, original |-> {persistent}]
    /\ old' = OldNow
    /\ UNCHANGED <<now, file, lock, thr, removed_timer, req>>

\* -------------------------------------------------------------- getters
\* MixpanelState::get_property; result holds the Option returned
GetProperty(property_name) ==
    /\ last' = "get_property"
    /\ result' = state_get_property(data, super_properties, now, property_name)
    /\ args' = [id |-> {property_name}, original |-> {}]
    /\ UNCHANGED <<data, super_properties, now, file, tasks, lock, thr, sent, old, engage, removed_timer, req>>

\* ------------------------------------------------------------ modifiers
\* Value::from(f64): a number, or null for a float that is not finite
f64_into(x) == IF x \in {"NaN", "inf", "-inf"} THEN "null" ELSE x

\* the data with the member of the key when the option holds a value
insert_some(d, key, opt) == IF opt = {} THEN d ELSE MapInsert(d, key, Unwrap(opt))

\* mutant of insert_geo: each coordinate is added on its own
insert_geo_each(d, latitude, longitude) ==
    insert_some(insert_some(d, "$latitude", {f64_into(x) : x \in latitude}),
                "$longitude", {f64_into(x) : x \in longitude})

\* merge_modifiers, the coordinates: added only as a pair
insert_geo(d, latitude, longitude) ==
    IF latitude # {} /\ longitude # {}
    THEN MapInsert(MapInsert(d, "$latitude", f64_into(Unwrap(latitude))),
                   "$longitude", f64_into(Unwrap(longitude)))
    ELSE d

\* merge_modifiers of utils.rs
merge_modifiers(d, modifiers) ==
    IF modifiers = {}
    THEN d
    ELSE LET m == Unwrap(modifiers)
             d1 == insert_some(d, "$ip", m.ip)
             d2 == insert_some(d1, "$ignore_time", m.ignore_time)
             d3 == insert_some(d2, "$time", m.time)
             d4 == insert_some(d3, "$ignore_alias", m.ignore_alias)
         IN  insert_geo(d4, m.latitude, m.longitude)

\* a call of merge_modifiers: the data merged is kept in engage
MergeModifiers(d, modifiers) ==
    /\ last' = "merge_modifiers"
    /\ engage' = <<merge_modifiers(d, modifiers)>>
    /\ args' = [id |-> {d}, original |-> modifiers]
    /\ result' = "Ok"
    /\ UNCHANGED <<data, super_properties, now, file, tasks, lock, thr, sent, old, removed_timer, req>>

\* ------------------------------------------------------------ transport
\* Result<()> of the client: Ok(()) and the variants of Error; the message of
\* a variant is left out, the fields the retry loop reads are kept
OkUnit == [kind |-> "Ok", is_connect |-> FALSE, is_timeout |-> FALSE, retry_after |-> {}]
Error(kind) == [kind |-> kind, is_connect |-> FALSE, is_timeout |-> FALSE, retry_after |-> {}]
HttpError(is_connect, is_timeout) ==
    [kind |-> "HttpError", is_connect |-> is_connect, is_timeout |-> is_timeout, retry_after |-> {}]
ApiRateLimitError(retry_after) ==
    [kind |-> "ApiRateLimitError", is_connect |-> FALSE, is_timeout |-> FALSE, retry_after |-> retry_after]

\* what one attempt meets: whether the data serializes and the URL parses,
\* what the transport does, and the status, body and Retry-After of the reply
Answer == [serializes |-> TRUE, url_parses |-> TRUE, transport |-> "ok",
           status |-> 200, body |-> "1", retry_after |-> {}]

Answers ==
    {Answer,
     [Answer EXCEPT !.serializes = FALSE],
     [Answer EXCEPT !.url_parses = FALSE],
     [Answer EXCEPT !.transport = "connect"],
     [Answer EXCEPT !.transport = "timeout"],
     [Answer EXCEPT !.transport = "other"],
     [Answer EXCEPT !.body = "0"],
     [Answer EXCEPT !.status = 302],
     [Answer EXCEPT !.status = 400],
     [Answer EXCEPT !.status = 413],
     [Answer EXCEPT !.status = 429],
     [Answer EXCEPT !.status = 429, !.retry_after = {2}],
     [Answer EXCEPT !.status = 500]}

\* Mixpanel::do_send_request with verbose off: one attempt, no retry
do_send_request(answer) ==
    IF ~answer.serializes THEN Error("JsonError")
    ELSE IF ~answer.url_parses THEN Error("UrlError")
    ELSE IF answer.transport # "ok"
    THEN HttpError(answer.transport = "connect", answer.transport = "timeout")
    ELSE IF answer.status >= 200 /\ answer.status <= 299
    THEN IF answer.body # "1" THEN Error("ApiUnexpectedResponse") ELSE OkUnit
    ELSE IF answer.status = 413 THEN Error("ApiPayloadTooLarge")
    ELSE IF answer.status = 429 THEN ApiRateLimitError(answer.retry_after)
    ELSE IF answer.status >= 500 THEN Error("ApiServerError")
    ELSE IF answer.status >= 400 THEN Error("ApiClientError")
    ELSE Error("ApiHttpError")

\* should_retry of send_request
should_retry(err) ==
    CASE err.kind = "HttpError" -> err.is_connect \/ err.is_timeout
      [] err.kind = "ApiServerError" -> TRUE
      [] err.kind = "ApiRateLimitError" -> TRUE
      [] OTHER -> FALSE

\* Config.retry_max_delay_ms
retry_max_delay_ms == 4

\* 1 << retries on a u64 of U64Bits bits: a shift by the width or more
\* panics in a build with overflow checks and is masked in one without;
\* the empty set is the panic
shl_one(retries, overflow_checks) ==
    IF retries < U64Bits THEN {2 ^ retries}
    ELSE IF overflow_checks THEN {}
    ELSE {2 ^ (retries % U64Bits)}

\* a * b on u64: an overflow panics with overflow checks and wraps without
mul_u64(a, b, overflow_checks) ==
    IF a * b < 2 ^ U64Bits THEN {a * b}
    ELSE IF overflow_checks THEN {}
    ELSE {(a * b) % (2 ^ U64Bits)}

\* wait_time of send_request in milliseconds; the empty set is the panic
wait_time(err, retries, base_delay, overflow_checks) ==
    IF err.kind = "ApiRateLimitError" /\ err.retry_after # {}
    THEN {Unwrap(err.retry_after) * 1000}
    ELSE LET shifted == shl_one(retries, overflow_checks) IN
         IF shifted = {} THEN {}
         ELSE LET delay == mul_u64(base_delay, Unwrap(shifted), overflow_checks) IN
              IF delay = {} THEN {}
              ELSE {IF Unwrap(delay) < retry_max_delay_ms THEN Unwrap(delay) ELSE retry_max_delay_ms}

\* one turn of the loop of send_request, from the result of the attempt up
\* to the return, the panic or the sleep
send_request_turn(q, r) ==
    LET tried == [q EXCEPT !.attempts = @ + 1] IN
    IF r.kind = "Ok"
    THEN [tried EXCEPT !.pc = "done", !.last_error = {}, !.result = {r}]
    ELSE IF q.retries >= q.max_retries
    THEN [tried EXCEPT !.pc = "done", !.last_error = {r}, !.result = {Error("MaxRetriesReached")}]
    ELSE IF ~should_retry(r)
    THEN [tried EXCEPT !.pc = "done", !.last_error = {r}, !.result = {r}]
    ELSE LET wait == wait_time(r, q.retries, q.retry_base_delay_ms, q.overflow_checks) IN
         IF wait = {}
         THEN [tried EXCEPT !.pc = "panicked", !.last_error = {r}]
         ELSE [tried EXCEPT !.pc = "sleep", !.last_error = {r}, !.wait_time = wait]

\* Mixpanel::send_request is called: retries = 0, the loop is entered
SendRequest(max_retries, retry_base_delay_ms, overflow_checks) ==
    /\ req.pc \in {"idle", "done", "panicked"}
    /\ req' = [NoRequest EXCEPT !.pc = "attempt", !.max_retries = max_retries,
                                !.retry_base_delay_ms = retry_base_delay_ms,
                                !.overflow_checks = overflow_checks]
    /\ last' = "send_request"
    /\ UNCHANGED <<data, super_properties, now, file, tasks, lock, thr, sent, result, args, old, engage, removed_timer>>

\* do_send_request(...).await has its result and the loop goes on to its
\* return or to time::sleep
Attempt(answer) ==
    /\ req.pc = "attempt"
    /\ req' = send_request_turn(req, do_send_request(answer))
    /\ UNCHANGED <<data, super_properties, now, file, tasks, last, lock, thr, sent, result, args, old, engage, removed_timer>>

\* time::sleep(wait_time).await is over: retries += 1 and the next attempt
Wake ==
    /\ req.pc = "sleep"
    /\ req' = [req EXCEPT !.pc = "attempt", !.retries = @ + 1, !.slept = @ + 1]
    /\ UNCHANGED <<data, super_properties, now, file, tasks, last, lock, thr, sent, result, args, old, engage, removed_timer>>

\* ------------------------------------------------------- specifications
OptsOf(S) == {{}} \cup {{x} : x \in S}

TaskStep ==
    \/ \E i \in 1..Len(tasks) : SaveCreate(i)
    \/ \E i \in 1..Len(tasks) : SaveWrite(i)
    \/ \E i \in 1..Len(tasks) : DeleteRun(i)

\* no detached task is pending
Quiet == tasks = <<>>

\* Spec: calls and detached tasks interleave freely (up to MaxTasks tasks in
\* flight); the calls work on one key.
Call ==
    \/ \E v \in Vals : Register(TRUE, [k \in {"k1"} |-> v], {})
    \/ Unregister(TRUE, "k1")
    \/ \E id \in OptsOf(Ids) : SetDistinctId(id)
    \/ ClearAllData

Next == Call \/ TaskStep

Spec == Init /\ [][Next]_vars

\* SpecStore: register and unregister on the store and on the overlay with
\* all their options, clear, and the clock; a call is made once the detached tasks of
\* the previous call have finished (as the tests do with wait_for_save).
StoreCall ==
    \/ Quiet /\ \E props \in PropMaps, days \in DaysOpts : Register(TRUE, props, days)
    \/ Quiet /\ \E props \in PropMaps : Register(FALSE, props, {})
    \/ Quiet /\ \E p \in BOOLEAN, k \in Keys : Unregister(p, k)
    \/ Quiet /\ ClearAllData

NextStore == StoreCall \/ TaskStep \/ Tick

SpecStore == Init /\ [][NextStore]_vars

\* SpecRecord: the identity and the event timers of the record next to a
\* property with an expiry, and the clock; calls wait for the detached tasks.
RecordCall ==
    \/ Quiet /\ \E days \in {{}, {1}} : Register(TRUE, [k \in {"k1"} |-> "a"], days)
    \/ Quiet /\ \E id \in OptsOf(Ids) : SetDistinctId(id)
    \/ Quiet /\ \E e \in Events : TimeEvent(e)
    \/ Quiet /\ \E e \in Events : RemoveEventTimer(e)
    \/ Quiet /\ ClearAllData

NextRecord == RecordCall \/ TaskStep \/ Tick

SpecRecord == Init /\ [][NextRecord]_vars

\* SpecOnce: register_once on the store and on the overlay with every
\* default_value, unregister and clear; calls wait for the detached tasks.
OnceCall ==
    \/ Quiet /\ \E props \in PropMaps, dv \in OptsOf(Vals), days \in {{}, {1}} :
                    RegisterOnce(TRUE, props, dv, days)
    \/ Quiet /\ \E props \in PropMaps, dv \in OptsOf(Vals) :
                    RegisterOnce(FALSE, props, dv, {})
    \/ Quiet /\ \E p \in BOOLEAN, k \in Keys : Unregister(p, k)
    \/ Quiet /\ ClearAllData

NextOnce == OnceCall \/ TaskStep

SpecOnce == Init /\ [][NextOnce]_vars

\* SpecLoad: saves in flight, the clock, and the process ending at any step
\* and loading the file again, readable or not.
LoadCall ==
    \/ \E days \in {{}, {1}} : Register(TRUE, [k \in {"k1"} |-> "a"], days)
    \/ ClearAllData
    \/ \E readable \in BOOLEAN : Restart(readable)

NextLoad == LoadCall \/ TaskStep \/ Tick

SpecLoad == Init /\ [][NextLoad]_vars

\* SpecLock: two callers that register both keys with one value and read the
\* properties, taking and dropping the lock step by step.
LockCall ==
    \/ \E t \in Threads, v \in Vals : RegisterLock(t, [k \in Keys |-> v], {})
    \/ \E t \in Threads : RegisterExtend(t)
    \/ \E t \in Threads : RegisterUnlock(t)
    \/ \E t \in Threads : SaveLock(t)
    \/ \E t \in Threads : SaveClone(t)
    \/ \E t \in Threads : ReadLock(t)
    \/ \E t \in Threads : ReadClone(t)

SaveStep ==
    \/ \E i \in 1..Len(tasks) : SaveCreate(i)
    \/ \E i \in 1..Len(tasks) : SaveWrite(i)

NextLock == LockCall \/ SaveStep

SpecLock == Init /\ [][NextLock]_vars

\* SpecIdentity: the plugin set up on an installation without a file, then
\* identify, alias, reset and new set-ups on the file as the detached tasks
\* leave it, next to a registered $people_distinct_id and an overlay
\* property; calls wait for the detached tasks, which run in spawn order.
InitIdentity ==
    /\ data = mixpanel_state_new(NoFile, 0, TRUE, "m", {"w"}).data
    /\ super_properties = EmptyMap
    /\ now = 0
    /\ file = NoFile
    /\ tasks = mixpanel_state_new(NoFile, 0, TRUE, "m", {"w"}).tasks
    /\ last = "new"
    /\ lock = Unlocked
    /\ thr = [t \in Threads |-> Idle]
    /\ sent = <<>>
    /\ result = "Ok"
    /\ args = [id |-> {"m"}, original |-> {}]
    /\ old = NoOld
    /\ engage = <<>>
    /\ removed_timer = {}
    /\ req = NoRequest

IdentityCall ==
    \/ Quiet /\ \E id \in IdentIds, net \in BOOLEAN : Identify(id, net)
    \/ Quiet /\ \E a \in IdentIds, o \in OptsOf({"u1"}), net1, net2 \in BOOLEAN :
                    Alias(a, o, net1, net2)
    \/ Quiet /\ \E machine \in OptsOf(MachineIds) : Reset(machine)
    \/ \E readable \in BOOLEAN, machine_id \in MachineIds : New(readable, machine_id, {"w"})
    \/ Quiet /\ Register(TRUE, "$people_distinct_id" :> "u2", {})
    \/ Quiet /\ Register(FALSE, "k1" :> "a", {})

HeadStep ==
    \/ SaveCreate(1)
    \/ SaveWrite(1)
    \/ DeleteRun(1)

NextIdentity == IdentityCall \/ HeadStep

SpecIdentity == InitIdentity /\ [][NextIdentity]_vars

\* SpecTrack: track of one event with every kind of properties next to
\* registered and overlay properties, time_event, identify and reset, as
\* time passes; calls wait for the detached tasks.
TrackProps ==
    {JsonNull, JsonString, JsonObject("k1" :> "c"),
     JsonObject(("distinct_id" :> "u2") @@ ("time" :> 7) @@ ("k2" :> "c"))}

TrackCall ==
    \/ Quiet /\ \E p \in TrackProps, net \in BOOLEAN : Track("E", p, net)
    \/ Quiet /\ TimeEvent("E")
    \/ Quiet /\ Register(TRUE, ("k1" :> "a") @@ ("time" :> 9), {})
    \/ Quiet /\ Register(FALSE, ("k1" :> "b") @@ ("k2" :> "b"), {})
    \/ Quiet /\ Reset({"m"})
    \/ Quiet /\ Identify("u1", TRUE)

NextTrack == TrackCall \/ HeadStep \/ Tick

SpecTrack == InitIdentity /\ [][NextTrack]_vars

\* SpecTimer: time_event and track of two events on a wall clock that
\* steps forward and back.
TrackEvents == {"E", "F"}

TimerCall ==
    \/ Quiet /\ \E e \in TrackEvents, net \in BOOLEAN : Track(e, JsonNull, net)
    \/ Quiet /\ \E e \in TrackEvents : TimeEvent(e)

SaveHead ==
    \/ SaveCreate(1)
    \/ SaveWrite(1)

NextTimer == TimerCall \/ SaveHead \/ Tick \/ ClockBack

SpecTimer == InitIdentity /\ [][NextTimer]_vars

\* SpecPeople: the people calls on every kind of argument, before and
\* after identify and after reset.
PeopleProps ==
    {PNull, PStr("k1"), PStr("$token"),
     PObj("k1" :> PNum("1")),
     PObj("k1" :> PFloat("1.5")),
     PObj(("k1" :> PNum("1")) @@ ("k2" :> PStr("v"))),
     PObj(("k1" :> PNum("1")) @@ ("$token" :> PStr("v"))),
     PObj([k \in RESERVED_PROPERTIES |-> PStr("v")]),
     PObj([k \in RESERVED_PROPERTIES \cup {"k1"} |-> PArr(<<PStr("v")>>)]),
     PArr(<<PStr("k1"), PStr("$user_id")>>),
     PArr(<<PStr("$device_id"), PStr("$distinct_id")>>),
     PArr(<<PStr("k1"), PNum("1")>>)}

PeopleArgs == {{}, {PStr("v")}}

\* the list values given to union
UnionArgs == {{PArr(<<PStr("v"), PStr("w")>>)}}

PeopleCall ==
    \/ Quiet /\ \E op \in PeopleOps, prop \in PeopleProps, arg \in PeopleArgs, net \in BOOLEAN :
                    People(op, prop, arg, net)
    \/ Quiet /\ \E prop \in PeopleProps, arg \in UnionArgs, net \in BOOLEAN :
                    People("union", prop, arg, net)
    \/ Quiet /\ Identify("u1", TRUE)
    \/ Quiet /\ \E machine \in OptsOf(MachineIds) : Reset(machine)

NextPeople == PeopleCall \/ HeadStep

SpecPeople == InitIdentity /\ [][NextPeople]_vars

\* SpecSession: one call of every kind (the super properties, track and
\* time_event, a people and a group call, identify, alias and reset) and
\* new set-ups of the plugin on the file once the detached tasks are done.
SessionCall ==
    \/ Quiet /\ Identify("u1", TRUE)
    \/ Quiet /\ Alias("u2", {}, TRUE, TRUE)
    \/ Quiet /\ Reset({"m"})
    \/ Quiet /\ \E readable \in BOOLEAN : New(readable, "m", {"w"})
    \/ Quiet /\ Register(TRUE, "k1" :> "a", {})
    \/ Quiet /\ RegisterOnce(TRUE, "k2" :> "a", {}, {})
    \/ Quiet /\ Unregister(TRUE, "k1")
    \/ Quiet /\ Track("E", JsonNull, TRUE)
    \/ Quiet /\ TimeEvent("E")
    \/ Quiet /\ People("set", PStr("k1"), {PStr("v")}, TRUE)
    \/ Quiet /\ \E op \in GroupOps : Group(op, "g", PStr("x"), TRUE, TRUE)

NextSession == SessionCall \/ HeadStep

SpecSession == InitIdentity /\ [][NextSession]_vars

\* SpecModifiers: merge_modifiers on the requests of the people calls and
\* every choice of modifiers.
EngageData ==
    {client_people("$set", "u1", "k1" :> PStr("v")), client_people("$delete", "u1", "")}

ModifierOpts ==
    {{}} \cup {{[ip |-> ip, ignore_time |-> ignore_time, time |-> time,
                 ignore_alias |-> ignore_alias, latitude |-> latitude,
                 longitude |-> longitude]} :
                  ip \in OptsOf({"1.2.3.4"}), ignore_time \in OptsOf({TRUE}),
                  time \in OptsOf({5}), ignore_alias \in OptsOf({FALSE}),
                  latitude \in OptsOf({"40.5", "NaN"}), longitude \in OptsOf({"-74.0"})}

NextModifiers == \E d \in EngageData, modifiers \in ModifierOpts : MergeModifiers(d, modifiers)

SpecModifiers == Init /\ [][NextModifiers]_vars

\* SpecGet: get_property next to register on the store, with and without
\* an expiry, and on the overlay, as time passes.
GetCall ==
    \/ Quiet /\ \E k \in Keys, days \in {{}, {0}, {1}} : Register(TRUE, k :> "a", days)
    \/ Quiet /\ \E k \in Keys : Register(FALSE, k :> "b", {})
    \/ Quiet /\ \E k \in Keys : GetProperty(k)

NextGet == GetCall \/ SaveHead \/ Tick

SpecGet == Init /\ [][NextGet]_vars

\* SpecSend: send_request of the client for each max_retries up to
\* MaxRetries, two base delays and both kinds of build, against every answer
\* an attempt can meet.
BaseDelays == {1, 3}

NextSend ==
    \/ \E max_retries \in 0..MaxRetries, retry_base_delay_ms \in BaseDelays, overflow_checks \in BOOLEAN :
           SendRequest(max_retries, retry_base_delay_ms, overflow_checks)
    \/ \E answer \in Answers : Attempt(answer)
    \/ Wake

SpecSend == Init /\ [][NextSend]_vars

\* SpecSendFair: an attempt that was started gets its result and a sleep
\* ends: both are futures the caller awaits.
SpecSendFair ==
    SpecSend /\ WF_vars(\E answer \in Answers : Attempt(answer)) /\ WF_vars(Wake)

\* SpecGroups: add_group calls on one key, with the list kept in the record
\* or in the overlay, each call with or without a working network.
GroupsCall ==
    \/ Quiet /\ \E group_id \in GroupIds, persistent \in BOOLEAN, net \in BOOLEAN :
                    Group("add_group", "g", group_id, persistent, net)
    \/ Quiet /\ Identify("u1", TRUE)

NextGroups == GroupsCall \/ SaveHead

SpecGroups == Init /\ [][NextGroups]_vars

\* SpecRace: one time_event("E"), then track("E") and track("F") on two
\* threads, their steps interleaved with each other, with the detached
\* saves and with the clock.
RaceCall ==
    \/ TimeEventFirst("E")
    \/ \E t \in Threads, e \in TrackEvents, p \in {JsonNull, JsonString} : TrackBegin(t, e, p)
    \/ \E t \in Threads : TrackTakeTimer(t)
    \/ \E t \in Threads, net \in BOOLEAN : TrackSend(t, net)

NextRace == RaceCall \/ SaveHead \/ Tick

SpecRace == InitIdentity /\ [][NextRace]_vars

\* SpecPeopleRace: send_request of People on two threads, its two reads of
\* the distinct_id interleaved with identify and reset and the detached
\* tasks.
PeopleRaceCall ==
    \/ \E t \in Threads, action \in {"$set", "$delete"} :
           PeopleCheck(t, action, "k1" :> PStr("v"))
    \/ \E t \in Threads, net \in BOOLEAN : PeopleSend(t, net)
    \/ Quiet /\ \E id \in IdentIds : Identify(id, TRUE)
    \/ Quiet /\ \E machine \in OptsOf(MachineIds) : Reset(machine)

NextPeopleRace == PeopleRaceCall \/ HeadStep

SpecPeopleRace == InitIdentity /\ [][NextPeopleRace]_vars

\* ================================================================ claims

\* C1 (as claimed): no update is lost on the way to the file: once every
\* detached save or delete task has finished, a reload of the backing file
\* parses exactly the in-memory record (no file standing for the default).
C1_NoLostUpdate == (tasks = <<>>) => (read_test_file(file) = {data})

\* C2 (as claimed): at every instant the backing file is either absent or a
\* complete serialization of one whole record, never empty or partial.
C2_FileNeverCorrupt == file.exists => (from_str(file.content) # {})

\* C4 (as claimed): after every persistent register(props, days), whatever
\* the record was and whatever days is, get_property(k) returns props[k] for
\* every key k of props.
C4_RegisterThenGet ==
    [][\A props \in PropMaps, days \in DaysOpts :
          Register(TRUE, props, days) =>
              \A k \in DOMAIN props :
                  persistence_get_property(data', now', k) = {props[k]}]_vars

\* C5: register_once, on the persistent store and on the overlay, sets a key
\* exactly when it is absent or its current value equals default_value; every
\* other key keeps what it had (an absent key of props is always filled).
C5_RegisterOnce ==
    [][\A p \in BOOLEAN, props \in PropMaps, dv \in OptsOf(Vals), days \in {{}, {1}} :
          RegisterOnce(p, props, dv, days) =>
              LET m == IF p THEN data.properties ELSE super_properties
                  m2 == IF p THEN data'.properties ELSE super_properties'
              IN  \A k \in Keys :
                      IF k \in DOMAIN props /\ (k \notin DOMAIN m \/ dv = MapGet(m, k))
                      THEN MapGet(m2, k) = {props[k]}
                      ELSE MapGet(m2, k) = MapGet(m, k)]_vars

\* C5 witness: a register_once has acted and both stores hold a key.
C5_Witness ==
    /\ last = "register_once"
    /\ "k1" \in DOMAIN data.properties
    /\ "k2" \in DOMAIN super_properties

\* C6 (as claimed): after unregister(k), get_property(k) returns none,
\* whichever stores held k before the call.
C6_UnregisterThenGetNone ==
    [][\A p \in BOOLEAN, k \in Keys :
          Unregister(p, k) =>
              state_get_property(data', super_properties', now', k) = {}]_vars

\* C6 (amended): unregister(k) removes k from the store its options choose
\* and leaves the other keys, the other fields and the other store as they
\* were, so that get_property(k) then returns what the other store holds for
\* k; when the persistent store held k, the save that is spawned carries a
\* snapshot without k.
C6_UnregisterChosenStore ==
    [][\A p \in BOOLEAN, k \in Keys :
          Unregister(p, k) =>
              IF p
              THEN /\ k \notin DOMAIN data'.properties
                   /\ \A x \in Keys \ {k} :
                          MapGet(data'.properties, x) = MapGet(data.properties, x)
                   /\ data'.distinct_id = data.distinct_id
                   /\ data'.alias = data.alias
                   /\ data'.event_timers = data.event_timers
                   /\ data'.store_expires_at = data.store_expires_at
                   /\ super_properties' = super_properties
                   /\ state_get_property(data', super_properties', now', k)
                          = MapGet(super_properties, k)
                   /\ (k \in DOMAIN data.properties =>
                          /\ Len(tasks') = Len(tasks) + 1
                          /\ tasks'[Len(tasks')].kind = "save"
                          /\ k \notin DOMAIN tasks'[Len(tasks')].snap.properties)
              ELSE /\ k \notin DOMAIN super_properties'
                   /\ \A x \in Keys \ {k} :
                          MapGet(super_properties', x) = MapGet(super_properties, x)
                   /\ data' = data
                   /\ state_get_property(data', super_properties', now', k)
                          = persistence_get_property(data, now, k)]_vars

\* C6 witness: a persistent unregister removed the key and spawned its save
\* while the overlay still holds the same key.
C6_Witness ==
    /\ last = "unregister"
    /\ "k1" \notin DOMAIN data.properties
    /\ "k1" \in DOMAIN super_properties
    /\ tasks # <<>>
    /\ tasks[Len(tasks)].pc = 0

\* C7 (as claimed): a persistent register(props, days) with days = N > 0 sets
\* the expiry to now + N days exactly when the expiry is unset, passed, or
\* earlier than that, and keeps it otherwise; days = 0 clears the expiry; days
\* absent leaves it as it was.
C7_ExpiryRule ==
    [][\A props \in PropMaps, days \in DaysOpts :
          Register(TRUE, props, days) =>
              LET cur == data.store_expires_at
                  new == data'.store_expires_at
              IN  IF days = {} THEN new = cur
                  ELSE IF days = {0} THEN new = {}
                  ELSE LET target == now + Unwrap(days) * DayMillis
                       IN  IF cur = {} \/ (\E c \in cur : target > c \/ now >= c)
                           THEN new = {target}
                           ELSE new = cur]_vars

\* C7 for the days whose expiry time fits the integer width
C7_ExpiryRuleInRange ==
    [][\A props \in PropMaps, days \in DaysOpts :
          (Register(TRUE, props, days)
              /\ \A d \in days : now + d * DayMillis < U64) =>
              LET cur == data.store_expires_at
                  new == data'.store_expires_at
              IN  IF days = {} THEN new = cur
                  ELSE IF days = {0} THEN new = {}
                  ELSE LET target == now + Unwrap(days) * DayMillis
                       IN  IF cur = {} \/ (\E c \in cur : target > c \/ now >= c)
                           THEN new = {target}
                           ELSE new = cur]_vars

\* C8: whenever the record has an expiry and now >= expires_at, the store's
\* get_properties returns the empty map and its get_property returns none
\* for every key.
C8_ExpiredInvisible ==
    (\E expires_at \in data.store_expires_at : now >= expires_at) =>
        /\ persistence_get_properties(data, now) = EmptyMap
        /\ \A k \in Keys : persistence_get_property(data, now, k) = {}

\* C8 witness: the expiry has passed while the record still holds properties.
C8_Witness ==
    /\ \E expires_at \in data.store_expires_at : now >= expires_at
    /\ DOMAIN data.properties = Keys

\* C9 (as claimed): once now >= expires_at, the whole record reads as empty:
\* the properties, the distinct_id and the event timers.
C9_ExpiredRecordReadsEmpty ==
    (\E expires_at \in data.store_expires_at : now >= expires_at) =>
        /\ persistence_get_properties(data, now) = EmptyMap
        /\ persistence_get_distinct_id(data) = {}
        /\ \A e \in Events : MapGet(data.event_timers, e) = {}

\* a properties map as some whole register of SpecLock leaves it: both keys
\* or none, with one value
Whole(m) ==
    /\ ("k1" \in DOMAIN m) <=> ("k2" \in DOMAIN m)
    /\ DOMAIN m = Keys => m["k1"] = m["k2"]

\* C3: no torn reads: what get_properties returns and every snapshot taken
\* for saving shows a register of several keys with all its keys or none.
C3_NoTornRead ==
    /\ \A t \in Threads : Whole(thr[t].obs)
    /\ \A i \in 1..Len(tasks) : Whole(tasks[i].snap.properties)

\* C3 witness: a caller holds a whole read of one register while another
\* caller is half way through the next register.
C3_Witness ==
    \E t, u \in Threads :
        /\ thr[t].obs = [k \in Keys |-> "a"]
        /\ thr[u].pc = "extend"
        /\ ~Whole(data.properties)

\* C10: loading yields the stored record when the file is present, readable,
\* a complete serialization and not expired at load time, and the default
\* record in every other case.
C10_LoadWholeOrDefault ==
    [][\A readable \in BOOLEAN :
          Restart(readable) =>
              LET stored == {d \in {file.content[i].of : i \in 1..Len(file.content)} :
                                file.content = to_string_pretty(d)}
              IN  IF /\ file.exists
                     /\ readable
                     /\ stored # {}
                     /\ \A d \in stored : \A e \in d.store_expires_at : now < e
                  THEN {data'} = stored
                  ELSE data' = PersistentDataDefault]_vars

\* C10 witness: a load has returned a stored record that carries an expiry.
C10_Witness ==
    /\ last = "new"
    /\ file.exists
    /\ data.store_expires_at # {}
    /\ DOMAIN data.properties # {}

\* In the claims about one call, the id the call was made with is the one
\* the call records in args (Identify and Alias set args to their arguments),
\* so the quantifiers range over the recorded arguments.

\* the ids that carry the device-fallback prefix
DevicePrefixed == {format_device(machine_id) : machine_id \in MachineIds}

\* C11: identify(new_id) with new_id different from the current distinct_id
\* and without the device prefix makes get_distinct_id() return new_id, and
\* hands exactly one $identify event to the client, carrying distinct_id =
\* new_id and $anon_distinct_id = the previous id, when there was a previous
\* distinct_id, and no event when there was none.
C11_IdentifySwitches ==
    [][\A id \in IdentIds \cap args'.id, net \in BOOLEAN :
          (Identify(id, net) /\ data.distinct_id # {id} /\ id \notin DevicePrefixed) =>
              /\ persistence_get_distinct_id(data') = {id}
              /\ IF data.distinct_id # {}
                 THEN /\ Len(sent') = 1
                      /\ sent'[1].event = "$identify"
                      /\ MapGet(sent'[1].properties, "distinct_id") = {id}
                      /\ MapGet(sent'[1].properties, "$anon_distinct_id") = data.distinct_id
                 ELSE sent' = <<>>]_vars

\* C11 witness: identify("u1") on the device-fallback identity has switched
\* the id and sent its one $identify event.
C11_Witness ==
    /\ last = "identify"
    /\ args.id = {"u1"}
    /\ old.distinct_id = {format_device("m")}
    /\ data.distinct_id = {"u1"}
    /\ Len(sent) = 1
    /\ sent[1].event = "$identify"

\* C12: identify(new_id) with new_id equal to the current distinct_id is a
\* no-op: the record and the overlay are unchanged, no save is spawned and no
\* event is handed to the client.
C12_IdentifySameIdNoOp ==
    [][\A id \in IdentIds \cap args'.id, net \in BOOLEAN :
          (Identify(id, net) /\ data.distinct_id = {id}) =>
              /\ data' = data
              /\ super_properties' = super_properties
              /\ tasks' = tasks
              /\ sent' = <<>>
              /\ result' = "Ok"]_vars

\* C12 witness: identify("u1") was called while the distinct_id was "u1".
C12_Witness ==
    /\ last = "identify"
    /\ args.id = {"u1"}
    /\ old.distinct_id = {"u1"}
    /\ DOMAIN super_properties # {}

\* C13: identify(new_id) with a new_id that carries the device prefix returns
\* without an error, changes nothing in the record or the overlay, spawns no
\* save and sends no event.
C13_IdentifyRejectsDevicePrefix ==
    [][\A id \in DevicePrefixed \cap args'.id, net \in BOOLEAN :
          Identify(id, net) =>
              /\ result' = "Ok"
              /\ data' = data
              /\ super_properties' = super_properties
              /\ tasks' = tasks
              /\ sent' = <<>>]_vars

\* C13 witness: identify with the device-prefixed id was called while the
\* distinct_id was "u1", and the distinct_id is still "u1".
C13_Witness ==
    /\ last = "identify"
    /\ args.id = {format_device("m")}
    /\ old.distinct_id = {"u1"}
    /\ data.distinct_id = {"u1"}

\* C14: identify (called directly or by alias) records the previous
\* distinct_id as $device_id, with $had_persisted_distinct_id = true, only
\* when no $device_id is recorded yet; a recorded $device_id is never changed.
C14_DeviceIdRecordedOnce ==
    [][(last' \in {"identify", "alias"}) =>
          LET dev == MapGet(data.properties, "$device_id")
              dev2 == MapGet(data'.properties, "$device_id")
          IN  /\ dev # {} => dev2 = dev
              /\ dev2 # dev =>
                     /\ dev = {}
                     /\ dev2 = data.distinct_id
                     /\ MapGet(data'.properties, "$had_persisted_distinct_id") = {TRUE}]_vars

\* C14 witness: identify("u2") found no $device_id and recorded the previous
\* id "u1" with the flag.
C14_Witness ==
    /\ last = "identify"
    /\ args.id = {"u2"}
    /\ old.distinct_id = {"u1"}
    /\ MapGet(data.properties, "$device_id") = {"u1"}
    /\ MapGet(data.properties, "$had_persisted_distinct_id") = {TRUE}

\* C14 second case: identify("u2") found the $device_id of the set-up and
\* left it as it was.
C14_WitnessKept ==
    /\ last = "identify"
    /\ args.id = {"u2"}
    /\ old.distinct_id = {"u1"}
    /\ data.distinct_id = {"u2"}
    /\ MapGet(data.properties, "$device_id") = {"m"}

\* C15: on an identify(new_id) that switches the id, a pending $alias that
\* differs from new_id is cleared (get_property("$alias") is none afterwards)
\* and a pending $alias equal to new_id is kept.
C15_IdentifyClearsOtherAlias ==
    [][\A id \in IdentIds \cap args'.id, net \in BOOLEAN :
          (Identify(id, net) /\ data.distinct_id # {id} /\ id \notin DevicePrefixed) =>
              LET pending == state_get_property(data, super_properties, now, "$alias")
                  after == state_get_property(data', super_properties', now', "$alias")
              IN  /\ (pending # {} /\ pending # {id}) => after = {}
                  /\ pending = {id} => after = {id}]_vars

\* C15 witness: identify("u1") found the pending alias "u2" and removed it.
C15_Witness ==
    /\ last = "identify"
    /\ args.id = {"u1"}
    /\ old.alias = {"u2"}
    /\ data.distinct_id = {"u1"}
    /\ "$alias" \notin DOMAIN data.properties

\* the original id alias works with: the one given, else the current id
OriginalOf(original) == IF original # {} THEN original ELSE data.distinct_id

\* C16 (as claimed): alias(new_alias, original) with new_alias different from
\* the original id and no profile collision registers $alias = new_alias,
\* sends $create_alias {alias, distinct_id: original} before any $identify
\* event, and afterwards get_distinct_id() returns new_alias.
C16_AliasThenIdentify ==
    [][\A a \in IdentIds \cap args'.id, o \in {args'.original}, net1, net2 \in BOOLEAN :
          (/\ Alias(a, o, net1, net2)
           /\ OriginalOf(o) # {}
           /\ OriginalOf(o) # {a}
           /\ persistence_get_property(data, now, "$people_distinct_id") # {a}) =>
              /\ MapGet(data'.properties, "$alias") = {a}
              /\ Len(sent') >= 1
              /\ sent'[1].event = "$create_alias"
              /\ MapGet(sent'[1].properties, "alias") = {a}
              /\ MapGet(sent'[1].properties, "distinct_id") = OriginalOf(o)
              /\ \A i \in 2..Len(sent') : sent'[i].event = "$identify"
              /\ persistence_get_distinct_id(data') = {a}]_vars

\* C16 (amended): such an alias registers $alias = new_alias and sends
\* $create_alias {alias, distinct_id: original} first; when that send
\* succeeds and new_alias has no device prefix it then identifies as
\* new_alias (get_distinct_id() returns new_alias, and one $identify event
\* follows when the id changed from a previous one); when the send fails it
\* returns the error with the distinct_id unchanged and nothing else sent;
\* a device-prefixed new_alias is never identified as.
C16_AliasThenIdentifyOnSuccess ==
    [][\A a \in IdentIds \cap args'.id, o \in {args'.original}, net1, net2 \in BOOLEAN :
          (/\ Alias(a, o, net1, net2)
           /\ OriginalOf(o) # {}
           /\ OriginalOf(o) # {a}
           /\ persistence_get_property(data, now, "$people_distinct_id") # {a}) =>
              /\ MapGet(data'.properties, "$alias") = {a}
              /\ Len(sent') >= 1
              /\ sent'[1].event = "$create_alias"
              /\ MapGet(sent'[1].properties, "alias") = {a}
              /\ MapGet(sent'[1].properties, "distinct_id") = OriginalOf(o)
              /\ IF net1 /\ a \notin DevicePrefixed
                 THEN /\ persistence_get_distinct_id(data') = {a}
                      /\ IF data.distinct_id # {} /\ data.distinct_id # {a}
                         THEN /\ Len(sent') = 2
                              /\ sent'[2].event = "$identify"
                              /\ MapGet(sent'[2].properties, "distinct_id") = {a}
                         ELSE Len(sent') = 1
                 ELSE /\ persistence_get_distinct_id(data') = data.distinct_id
                      /\ Len(sent') = 1
                      /\ (~net1 => result' = "Err")]_vars

\* C16 witness: alias("u2", "u1") has sent $create_alias and then $identify
\* and the distinct_id is "u2".
C16_Witness ==
    /\ last = "alias"
    /\ args = [id |-> {"u2"}, original |-> {"u1"}]
    /\ result = "Ok"
    /\ Len(sent) = 2
    /\ sent[1].event = "$create_alias"
    /\ sent[2].event = "$identify"
    /\ data.distinct_id = {"u2"}
    /\ MapGet(data.properties, "$alias") = {"u2"}

\* C17: alias(a) with a equal to the current distinct_id makes no remote
\* alias call: no $create_alias event is sent, no $alias is registered, and
\* what it does is what identify(a) does (here: nothing).
C17_AliasOfCurrentId ==
    [][\A a \in IdentIds \cap args'.id, net1, net2 \in BOOLEAN :
          (Alias(a, {}, net1, net2) /\ data.distinct_id = {a}) =>
              /\ \A i \in 1..Len(sent') : sent'[i].event # "$create_alias"
              /\ MapGet(data'.properties, "$alias") = MapGet(data.properties, "$alias")
              /\ data' = identify(StateNow, now, a, net1).st.data
              /\ super_properties' = identify(StateNow, now, a, net1).st.sp
              /\ tasks' = identify(StateNow, now, a, net1).st.tasks
              /\ sent' = identify(StateNow, now, a, net1).st.sent
              /\ result' = identify(StateNow, now, a, net1).result
              /\ data' = data
              /\ tasks' = tasks]_vars

\* C17 witness: alias("u1") was called with no original while the
\* distinct_id was "u1".
C17_Witness ==
    /\ last = "alias"
    /\ args = [id |-> {"u1"}, original |-> {}]
    /\ old.distinct_id = {"u1"}
    /\ sent = <<>>
    /\ result = "Ok"

\* C18 (as claimed): alias fails with an error, changes no state and sends no
\* event when the persisted $people_distinct_id equals new_alias, and when no
\* original is given and there is no current distinct_id.
C18_AliasFails ==
    [][\A a \in IdentIds \cap args'.id, o \in {args'.original}, net1, net2 \in BOOLEAN :
          (/\ Alias(a, o, net1, net2)
           /\ \/ persistence_get_property(data, now, "$people_distinct_id") = {a}
              \/ OriginalOf(o) = {}) =>
              /\ result' = "Err"
              /\ data' = data
              /\ super_properties' = super_properties
              /\ tasks' = tasks
              /\ sent' = <<>>]_vars

\* C18 (amended): alias fails with an error, changes no state and sends no
\* event when no original is given and there is no current distinct_id, and
\* when new_alias differs from the original id and the persisted
\* $people_distinct_id equals new_alias (an alias equal to the original id is
\* handed to identify before $people_distinct_id is looked at).
C18_AliasFailsUnlessSameId ==
    [][\A a \in IdentIds \cap args'.id, o \in {args'.original}, net1, net2 \in BOOLEAN :
          (/\ Alias(a, o, net1, net2)
           /\ \/ /\ persistence_get_property(data, now, "$people_distinct_id") = {a}
                 /\ OriginalOf(o) # {a}
              \/ OriginalOf(o) = {}) =>
              /\ result' = "Err"
              /\ data' = data
              /\ super_properties' = super_properties
              /\ tasks' = tasks
              /\ sent' = <<>>]_vars

\* C18 witness: alias("u2") was refused because $people_distinct_id is "u2"
\* while the distinct_id is another id.
C18_Witness ==
    /\ last = "alias"
    /\ result = "Err"
    /\ args.id = {"u2"}
    /\ MapGet(data.properties, "$people_distinct_id") = {"u2"}
    /\ old.distinct_id = {"u1"}
    /\ data.distinct_id = {"u1"}
    /\ sent = <<>>

\* C19 (as claimed): after a reset that returned Ok the record holds nothing
\* but the fresh identity, the overlay is empty, get_distinct_id() returns the
\* device-prefixed machine id and $device_id is registered.
C19_ResetFreshIdentity ==
    (last = "reset" /\ result = "Ok") =>
        /\ super_properties = EmptyMap
        /\ data.alias = {}
        /\ data.event_timers = PersistentDataDefault.event_timers
        /\ data.store_expires_at = {}
        /\ MapGet(data.properties, "$device_id") = args.id
        /\ persistence_get_distinct_id(data) = {format_device(Unwrap(args.id))}

\* C20: a set-up that loads no distinct_id and no $device_id stores the
\* machine id as $device_id and sets the distinct_id to its device-prefixed
\* form; a set-up that loads a distinct_id leaves it as it is.
C20_InitIdentity ==
    [][\A readable \in BOOLEAN, machine_id \in MachineIds, webview \in OptsOf({"w"}) :
          New(readable, machine_id, webview) =>
              LET loaded == persistence_new(file, now, readable)
              IN  /\ (loaded.distinct_id = {} /\ MapGet(loaded.properties, "$device_id") = {}) =>
                         /\ MapGet(data'.properties, "$device_id") = {machine_id}
                         /\ persistence_get_distinct_id(data') = {format_device(machine_id)}
                  /\ loaded.distinct_id # {} =>
                         persistence_get_distinct_id(data') = loaded.distinct_id]_vars

\* C20 witness: a set-up has loaded the distinct_id "u1" from the file and
\* kept it.
C20_Witness ==
    /\ last = "new"
    /\ file.exists
    /\ old.distinct_id = {"u1"}
    /\ data.distinct_id = {"u1"}
    /\ MapGet(data.properties, "$device_id") = {"m"}

\* the record holds a distinct_id without the device prefix
RealId(d) == \E id \in d.distinct_id : id \notin DevicePrefixed

\* C21 (as claimed): once the distinct_id is real, only identify, alias and
\* reset change it: no other call and no new set-up replaces or drops it.
C21_DistinctIdKept ==
    [][(RealId(data) /\ data'.distinct_id # data.distinct_id) =>
           last' \in {"identify", "alias", "reset"}]_vars

\* C21 (amended): once the distinct_id is real, only identify, alias and
\* reset change it in the running plugin, and a new set-up changes it only
\* when the load of the file does not yield it (the file is unreadable,
\* incomplete or holds an expired record, so the record starts as the default).
C21_DistinctIdKeptWhenLoaded ==
    [][(RealId(data) /\ data'.distinct_id # data.distinct_id) =>
           \/ last' \in {"identify", "alias", "reset"}
           \/ last' = "new" /\ old'.distinct_id # data.distinct_id]_vars

\* C21 witness: after identify("u1") and calls of register, track, a people
\* call and a group call, a new set-up has loaded "u1" and kept it next to
\* the registered property and the group list.
C21_Witness ==
    /\ last = "new"
    /\ old.distinct_id = {"u1"}
    /\ data.distinct_id = {"u1"}
    /\ MapGet(data.properties, "k1") = {"a"}
    /\ "g" \in DOMAIN data.properties

\* the keys used for identity, as the identity manager and the people
\* requests name them
IdentityKeys == RESERVED_PROPERTIES \cup {"distinct_id", "token"}

\* C22 (as claimed): the persisted properties contain none of the reserved
\* identity keys.
C22_NoIdentityKeys == DOMAIN data.properties \cap IdentityKeys = {}

\* C22 (amended): the persisted properties hold the identity keys that the
\* plugin registers itself: an identify that changes the distinct_id leaves
\* $user_id and distinct_id registered with the new id, and a set-up that
\* loads no distinct_id registers distinct_id with the device-prefixed
\* machine id and a $device_id.
C22_IdentityKeysRegistered ==
    [][/\ (last' = "identify" /\ data'.distinct_id # data.distinct_id) =>
              /\ MapGet(data'.properties, "$user_id") = args'.id
              /\ MapGet(data'.properties, "distinct_id") = args'.id
       /\ (\E readable \in BOOLEAN : New(readable, "m", {"w"}) /\ old'.distinct_id = {}) =>
              /\ MapGet(data'.properties, "distinct_id") = {format_device("m")}
              /\ "$device_id" \in DOMAIN data'.properties]_vars

\* C22 witness: after a reset and identify("u2") the persisted properties
\* hold $user_id, distinct_id and $device_id.
C22_Witness ==
    /\ last = "identify"
    /\ args.id = {"u2"}
    /\ old.distinct_id = {}
    /\ {"$user_id", "distinct_id", "$device_id"} \subseteq DOMAIN data.properties
    /\ data.properties["distinct_id"] = "u2"

\* C23: a track called while the record holds no distinct_id returns an
\* error, hands no event to the client and leaves the record (the open
\* timer of the event included), the overlay and the detached tasks as
\* they are.
C23_TrackNeedsDistinctId ==
    [][\A p \in TrackProps, net \in BOOLEAN :
          (Track("E", p, net) /\ persistence_get_distinct_id(data) = {}) =>
              /\ result' = "Err"
              /\ sent' = <<>>
              /\ data' = data
              /\ super_properties' = super_properties
              /\ tasks' = tasks]_vars

\* C23 witness: after reset and time_event("E") a track("E") has failed
\* and the timer of "E" is still open.
C23_Witness ==
    /\ last = "track"
    /\ result = "Err"
    /\ sent = <<>>
    /\ persistence_get_distinct_id(data) = {}
    /\ "E" \in DOMAIN data.event_timers
    /\ removed_timer = {}
    /\ req = NoRequest

\* the properties the client puts on every event
LibKeys == {"token", "mp_lib", "$lib_version"}

\* C24: the properties of the event that track hands to the client are,
\* key by key, the forced distinct_id and time, else the value of the
\* call, else the value of the overlay, else the persisted value ($duration
\* and the properties of the client's library aside).
C24_TrackLayers ==
    [][\A p \in TrackProps, net \in BOOLEAN :
          (/\ Track("E", p, net)
           /\ persistence_get_distinct_id(data) # {}
           /\ parse_props(p) # {}) =>
              LET persistent_props == persistence_get_properties(data, now)
                  input_props == Unwrap(parse_props(p))
                  payload == sent'[1].properties
                  given == DOMAIN persistent_props \cup DOMAIN super_properties
                               \cup DOMAIN input_props \cup {"distinct_id", "time"}
              IN  /\ Len(sent') = 1
                  /\ sent'[1].event = "E"
                  /\ given \subseteq DOMAIN payload
                  /\ DOMAIN payload \subseteq given \cup LibKeys \cup {"$duration"}
                  /\ payload["distinct_id"] = Unwrap(persistence_get_distinct_id(data))
                  /\ payload["time"] = as_secs(unix_millis(now))
                  /\ \A k \in given \ (LibKeys \cup {"$duration", "distinct_id", "time"}) :
                         payload[k] = IF k \in DOMAIN input_props THEN input_props[k]
                                      ELSE IF k \in DOMAIN super_properties
                                      THEN super_properties[k]
                                      ELSE persistent_props[k]]_vars

\* C24 witness: with k1 = "a" and time = 9 registered, k1 = "b" and k2 = "b"
\* in the overlay and the distinct_id "u1", a track whose properties hold
\* k2 = "c", distinct_id = "u2" and time = 7 has sent k1 = "b", k2 = "c",
\* distinct_id = "u1" and the time of the clock.
C24_Witness ==
    /\ last = "track"
    /\ Len(sent) = 1
    /\ MapGet(data.properties, "k1") = {"a"}
    /\ MapGet(data.properties, "time") = {9}
    /\ MapGet(super_properties, "k1") = {"b"}
    /\ MapGet(super_properties, "k2") = {"b"}
    /\ data.distinct_id = {"u1"}
    /\ now > 0
    /\ sent[1].properties["k1"] = "b"
    /\ sent[1].properties["k2"] = "c"
    /\ sent[1].properties["distinct_id"] = "u1"
    /\ sent[1].properties["time"] = as_secs(unix_millis(now))

\* C25: a track of E that finds a distinct_id leaves no timer of E, and
\* its event carries $duration exactly when a timer of E was open with a
\* start not after now; so with no time_event in between a second track
\* of E carries none.
C25_TrackConsumesTimer ==
    [][\A e \in TrackEvents \cap args'.id, net \in BOOLEAN :
          (Track(e, JsonNull, net) /\ persistence_get_distinct_id(data) # {}) =>
              /\ e \notin DOMAIN data'.event_timers
              /\ Len(sent') = 1
              /\ ("$duration" \in DOMAIN sent'[1].properties) <=>
                     \E start \in MapGet(data.event_timers, e) : now >= start]_vars

\* C25 witness: a track("E") has taken out a timer that started after now:
\* the timer is gone and the event carries no $duration.
C25_Witness ==
    /\ last = "track"
    /\ args.id = {"E"}
    /\ removed_timer # {}
    /\ \A start \in removed_timer : start > now
    /\ "E" \notin DOMAIN data.event_timers
    /\ Len(sent) = 1
    /\ "$duration" \notin DOMAIN sent[1].properties

\* C26: time_event(E) sets the one timer of E to now, whether or not E had
\* a timer, and leaves the timers of the other events as they are; a track
\* of E measures $duration from the timer it finds.
C26_OneTimerPerEvent ==
    [][/\ \A e \in TrackEvents :
              TimeEvent(e) =>
                  /\ MapGet(data'.event_timers, e) = {now}
                  /\ \A f \in TrackEvents \ {e} :
                         MapGet(data'.event_timers, f) = MapGet(data.event_timers, f)
       /\ \A e \in TrackEvents \cap args'.id, net \in BOOLEAN :
              (Track(e, JsonNull, net) /\ persistence_get_distinct_id(data) # {}) =>
                  \A start \in MapGet(data.event_timers, e) :
                      now >= start =>
                          sent'[1].properties["$duration"] =
                              ((now - start) * ((24 * 60 * 60 * 1000) \div DayMillis)) \div 1000
                  ]_vars

\* C26 witness: time_event("E") at time 1 has replaced the timer of "E"
\* that started at 0, and the timer of "F" that started at 0 is as it was.
C26_Witness ==
    /\ last = "time_event"
    /\ now = 1
    /\ removed_timer = {0}
    /\ MapGet(data.event_timers, "E") = {1}
    /\ MapGet(data.event_timers, "F") = {0}

\* C27 (as claimed): once the detached tasks started by clear_all_data have
\* finished, the in-memory record is the default record and the backing file
\* does not exist.
C27_ClearDeletesFile ==
    (last = "clear_all_data" /\ tasks = <<>>) =>
        /\ data = PersistentDataDefault
        /\ ~file.exists

\* the arguments that a people call accepts by their shape
ValidPeopleArgs(op, prop, arg) ==
    CASE op \in {"set", "set_once", "append", "remove", "union"} ->
             prop.kind \in {"string", "object"}
      [] op = "unset" ->
             \/ prop.kind = "string"
             \/ prop.kind = "array" /\ \A i \in 1..Len(prop.items) : prop.items[i].kind = "string"
      [] op = "increment" ->
             \/ prop.kind = "string" /\ \A by \in arg : by.kind \in {"number", "float"}
             \/ prop.kind = "object" /\ \A k \in DOMAIN prop.map :
                                            prop.map[k].kind \in {"number", "float"}
      [] op = "delete_user" -> TRUE

\* C28: a people call with valid arguments made while the distinct_id is
\* absent or device-prefixed returns Ok, hands no request to the client and
\* leaves the record, the overlay and the detached tasks as they are.
C28_PeopleDroppedBeforeIdentify ==
    [][last' \in PeopleOps =>
       \A op \in {last'}, prop \in PeopleProps \cap args'.id,
          arg \in PeopleArgs \cap {args'.original}, net \in BOOLEAN :
          (/\ People(op, prop, arg, net)
           /\ ~RealId(data)
           /\ ValidPeopleArgs(op, prop, arg)) =>
              /\ result' = "Ok"
              /\ engage' = <<>>
              /\ data' = data
              /\ super_properties' = super_properties
              /\ tasks' = tasks]_vars

\* C28 witness: set({k1: 1}) on the device identity of the set-up has
\* returned Ok and nothing was handed to the client.
C28_Witness ==
    /\ last = "set"
    /\ args.id = {PObj("k1" :> PNum("1"))}
    /\ data.distinct_id = {format_device("m")}
    /\ result = "Ok"
    /\ engage = <<>>

\* the keys a people call names: the key shorthand, the members of the map
\* or the elements of the array
CallKeys(prop) ==
    IF prop.kind = "string" THEN {prop.text}
    ELSE IF prop.kind = "object" THEN DOMAIN prop.map
    ELSE {prop.items[i].text : i \in 1..Len(prop.items)}

\* the keys of the properties under the action of a request
ActionKeys(request) ==
    UNION {IF a = "$unset" THEN request[a]
           ELSE IF a = "$delete" THEN {}
           ELSE DOMAIN request[a] : a \in DOMAIN request \ {"$token", "$distinct_id"}}

\* C29: no request of a people call holds a reserved key under its action,
\* and a call that names reserved keys only hands no request to the client.
C29_NoReservedKeySent ==
    [][last' \in PeopleOps =>
       \A op \in {last'}, prop \in PeopleProps \cap args'.id,
          arg \in PeopleArgs \cap {args'.original}, net \in BOOLEAN :
          People(op, prop, arg, net) =>
              /\ \A i \in 1..Len(engage') :
                     ActionKeys(engage'[i]) \cap RESERVED_PROPERTIES = {}
              /\ (op # "delete_user" /\ CallKeys(prop) \subseteq RESERVED_PROPERTIES) =>
                     engage' = <<>>]_vars

\* C29 witness: set({k1: 1, $token: "v"}) of the identified user "u1" has
\* sent a request whose $set holds k1 only.
C29_Witness ==
    /\ last = "set"
    /\ args.id = {PObj(("k1" :> PNum("1")) @@ ("$token" :> PStr("v")))}
    /\ data.distinct_id = {"u1"}
    /\ Len(engage) = 1
    /\ engage[1]["$distinct_id"] = "u1"
    /\ DOMAIN engage[1]["$set"] = {"k1"}

\* C30 (as claimed): increment with a map that holds a value that is no
\* number returns an error and hands no request to the client.
C30_IncrementAborts ==
    [][last' = "increment" =>
       \A prop \in PeopleProps \cap args'.id, arg \in PeopleArgs \cap {args'.original},
          net \in BOOLEAN :
          (/\ People("increment", prop, arg, net)
           /\ prop.kind = "object"
           /\ \E k \in DOMAIN prop.map : ~is_number(prop.map[k])) =>
              /\ result' = "Err"
              /\ engage' = <<>>]_vars

\* C30 (amended): increment with a map that holds, under a key that is not
\* reserved, a value that is no number returns an error and hands no
\* request to the client.
C30_IncrementAbortsOnKeptKey ==
    [][last' = "increment" =>
       \A prop \in PeopleProps \cap args'.id, arg \in PeopleArgs \cap {args'.original},
          net \in BOOLEAN :
          (/\ People("increment", prop, arg, net)
           /\ prop.kind = "object"
           /\ \E k \in DOMAIN prop.map \ RESERVED_PROPERTIES : ~is_number(prop.map[k])) =>
              /\ result' = "Err"
              /\ engage' = <<>>]_vars

\* C30 witness: increment({k1: 1, k2: "v"}) of the identified user "u1" has
\* returned an error and nothing was handed to the client.
C30_Witness ==
    /\ last = "increment"
    /\ args.id = {PObj(("k1" :> PNum("1")) @@ ("k2" :> PStr("v")))}
    /\ data.distinct_id = {"u1"}
    /\ result = "Err"
    /\ engage = <<>>

\* C31: every value under $union of a request is an array: the array the
\* call gave, or the one-element array of the value it gave (the empty array
\* when the key shorthand gives no value).
C31_UnionSendsArrays ==
    [][last' = "union" =>
       \A prop \in PeopleProps \cap args'.id,
          arg \in (PeopleArgs \cup UnionArgs) \cap {args'.original}, net \in BOOLEAN :
          People("union", prop, arg, net) =>
              \A i \in 1..Len(engage') :
                  \A k \in DOMAIN engage'[i]["$union"] :
                      LET given == IF prop.kind = "object" THEN prop.map[k]
                                   ELSE IF arg = {} THEN PArr(<<>>)
                                   ELSE Unwrap(arg)
                          value == engage'[i]["$union"][k]
                      IN  /\ value.kind = "array"
                          /\ given.kind = "array" => value = given
                          /\ given.kind # "array" => value.items = <<given>>]_vars

\* C31 witness: union({k1: 1, k2: "v"}) of the identified user "u1" has sent
\* k1 as the array of 1 and k2 as the array of "v".
C31_Witness ==
    /\ last = "union"
    /\ args.id = {PObj(("k1" :> PNum("1")) @@ ("k2" :> PStr("v")))}
    /\ data.distinct_id = {"u1"}
    /\ Len(engage) = 1
    /\ engage[1]["$union"]["k1"] = PArr(<<PNum("1")>>)
    /\ engage[1]["$union"]["k2"] = PArr(<<PStr("v")>>)

\* C31 second case: union("k1", ["v", "w"]) has sent the array as given.
C31_WitnessArray ==
    /\ last = "union"
    /\ args.id = {PStr("k1")}
    /\ args.original = {PArr(<<PStr("v"), PStr("w")>>)}
    /\ Len(engage) = 1
    /\ engage[1]["$union"]["k1"] = PArr(<<PStr("v"), PStr("w")>>)

\* the keys of the modifiers and their fields
ModifierKeys ==
    {"$ip", "$ignore_time", "$time", "$ignore_alias", "$latitude", "$longitude"}

\* the modifier of the field, none when no modifiers are given
Given(modifiers, field) ==
    IF modifiers = {} THEN {} ELSE Unwrap(modifiers)[field]

\* C32: the data that merge_modifiers returns holds the data given as it
\* was; $ip, $ignore_time, $time and $ignore_alias each exactly when given,
\* with the value given; $latitude and $longitude both when both are given
\* and neither otherwise; without modifiers it is the data given.
C32_MergeModifiers ==
    last = "merge_modifiers" =>
        LET d == Unwrap(args.id)
            modifiers == args.original
            out == engage[1]
        IN  /\ DOMAIN d \subseteq DOMAIN out
            /\ DOMAIN out \subseteq DOMAIN d \cup ModifierKeys
            /\ \A k \in DOMAIN d : out[k] = d[k]
            /\ MapGet(out, "$ip") = Given(modifiers, "ip")
            /\ MapGet(out, "$ignore_time") = Given(modifiers, "ignore_time")
            /\ MapGet(out, "$time") = Given(modifiers, "time")
            /\ MapGet(out, "$ignore_alias") = Given(modifiers, "ignore_alias")
            /\ IF Given(modifiers, "latitude") # {} /\ Given(modifiers, "longitude") # {}
               THEN {"$latitude", "$longitude"} \subseteq DOMAIN out
               ELSE {"$latitude", "$longitude"} \cap DOMAIN out = {}
            /\ (\A field \in {"ip", "ignore_time", "time", "ignore_alias", "latitude",
                              "longitude"} : Given(modifiers, field) = {}) => out = d

\* C32 witness: with a latitude, an $ip and no longitude the data returned
\* holds $ip and neither coordinate.
C32_Witness ==
    /\ last = "merge_modifiers"
    /\ args.original # {}
    /\ Given(args.original, "latitude") = {"40.5"}
    /\ Given(args.original, "longitude") = {}
    /\ Given(args.original, "ip") = {"1.2.3.4"}
    /\ MapGet(engage[1], "$ip") = {"1.2.3.4"}
    /\ "$latitude" \notin DOMAIN engage[1]
    /\ "$longitude" \notin DOMAIN engage[1]

\* C33: get_property(k) returns the persisted value of k when the record
\* holds one and is not expired, else the overlay value of k, and none only
\* when neither is there.
C33_GetPropertyPrefersStore ==
    [][(last' = "get_property" /\ UNCHANGED <<data, super_properties, now, file, tasks>>) =>
        LET k == Unwrap(args'.id)
            visible == /\ k \in DOMAIN data.properties
                       /\ \A expires_at \in data.store_expires_at : now < expires_at
        IN  /\ visible => result' = {data.properties[k]}
            /\ ~visible => result' = MapGet(super_properties, k)
            /\ result' = {} <=> (~visible /\ k \notin DOMAIN super_properties)]_vars

\* C33 witness: with k1 = "a" in the record, not expired, and k1 = "b" in the
\* overlay, get_property("k1") has returned "a".
C33_Witness ==
    /\ last = "get_property"
    /\ args.id = {"k1"}
    /\ MapGet(data.properties, "k1") = {"a"}
    /\ MapGet(super_properties, "k1") = {"b"}
    /\ \A expires_at \in data.store_expires_at : now < expires_at
    /\ result = {"a"}

\* C33 second case: the record that holds k1 has expired and get_property
\* has returned the overlay value.
C33_WitnessExpired ==
    /\ last = "get_property"
    /\ args.id = {"k1"}
    /\ MapGet(data.properties, "k1") = {"a"}
    /\ \E expires_at \in data.store_expires_at : now >= expires_at
    /\ result = {"b"}

\* the errors send_request retries: connect and timeout failures of the
\* transport, 5xx and rate limit
Retryable(err) ==
    \/ err.kind = "HttpError" /\ (err.is_connect \/ err.is_timeout)
    \/ err.kind \in {"ApiServerError", "ApiRateLimitError"}

\* C34: send_request comes to a return: it never panics, it makes at most
\* max_retries + 1 attempts, it returns Ok on the first attempt that succeeds
\* (no attempt follows it), and when the last failure was a retryable one it
\* returns MaxRetriesReached after exactly max_retries retries.
C34_SendRequestReturns ==
    /\ req.pc # "panicked"
    /\ req.attempts <= req.max_retries + 1
    /\ req.attempts <= req.retries + 1
    /\ (req.pc = "done" /\ req.last_error = {}) => req.result = {OkUnit}
    /\ (req.pc = "done" /\ \E err \in req.last_error : Retryable(err)) =>
           /\ req.result = {Error("MaxRetriesReached")}
           /\ req.retries = req.max_retries
           /\ req.attempts = req.max_retries + 1

\* C34, the part that holds in every build: a call of send_request ends, by
\* a return or by the panic.
C34_SendRequestEnds == (req.pc = "attempt") ~> (req.pc \in {"done", "panicked"})

\* C34, the part that holds where the delay does not overflow: the claim
\* for the calls that have not panicked.
C34_ReturnsUnlessPanicked ==
    req.pc # "panicked" =>
        /\ req.attempts <= req.max_retries + 1
        /\ (req.pc = "done" /\ req.last_error = {}) => req.result = {OkUnit}
        /\ (req.pc = "done" /\ \E err \in req.last_error : Retryable(err)) =>
               /\ req.result = {Error("MaxRetriesReached")}
               /\ req.retries = req.max_retries
               /\ req.attempts = req.max_retries + 1

\* C35: an attempt that fails with an error that is not retried ends
\* send_request there: no sleep follows, and the caller gets that error.
C35_NonRetryableReturnedAsIs ==
    [][\A answer \in Answers :
          (/\ req.pc = "attempt"
           /\ req'.attempts = req.attempts + 1
           /\ req'.last_error = {do_send_request(answer)}
           /\ ~Retryable(do_send_request(answer)))
          => /\ req'.pc = "done"
             /\ req'.slept = req.slept
             /\ req'.result = {do_send_request(answer)}]_vars

\* C35, what the code does: the error that is not retried is returned as it
\* is while retries < max_retries, and as MaxRetriesReached otherwise.
C35_NonRetryableUnlessExhausted ==
    [][\A answer \in Answers :
          (/\ req.pc = "attempt"
           /\ req'.attempts = req.attempts + 1
           /\ req'.last_error = {do_send_request(answer)}
           /\ ~Retryable(do_send_request(answer)))
          => /\ req'.pc = "done"
             /\ req'.slept = req.slept
             /\ req'.result = IF req.retries < req.max_retries
                              THEN {do_send_request(answer)}
                              ELSE {Error("MaxRetriesReached")}]_vars

\* the list under the group key in the overlay m or the properties m of the
\* record, the empty list without one
ListUnder(m, group_key) == IF group_key \in DOMAIN m THEN m[group_key].items ELSE <<>>

Occurrences(xs, x) == Cardinality({i \in 1..Len(xs) : xs[i] = x})

\* C36: after add_group(key, id, options) the list under key in the store
\* the options select holds id exactly once and still holds every id it held
\* before (no call but add_group writes the lists here), and adding an id
\* the list holds leaves the list unchanged.
C36_AddGroupKeepsIds ==
    [][\A persistent \in BOOLEAN :
          (/\ last' = "add_group"
           /\ args'.original = {persistent}
           /\ file' = file
           /\ tasks' = tasks \/ Len(tasks') > Len(tasks))
          => LET before == IF persistent THEN ListUnder(data.properties, "g")
                                         ELSE ListUnder(super_properties, "g")
                 after == IF persistent THEN ListUnder(data'.properties, "g")
                                        ELSE ListUnder(super_properties', "g")
                 id == Unwrap(args'.id)
             IN  /\ Occurrences(after, id) = 1
                 /\ \A i \in 1..Len(before) : contains(after, before[i])
                 /\ contains(before, id) => after = before]_vars

\* C36, the part that holds: the list kept in the record. An add_group that
\* wrote the record left the id there exactly once and kept the ids the
\* list held.
C36_AddGroupKeepsIdsInRecord ==
    [][(last' = "add_group" /\ data' # data)
          => LET before == ListUnder(data.properties, "g")
                 after == ListUnder(data'.properties, "g")
                 id == Unwrap(args'.id)
             IN  /\ Occurrences(after, id) = 1
                 /\ \A i \in 1..Len(before) : contains(after, before[i])
                 /\ ~contains(before, id)]_vars

\* the events named e handed to the client, and those that carry $duration
SentOf(e) == {i \in 1..Len(sent) : sent[i].event = e}
TimedOf(e) == {i \in SentOf(e) : "$duration" \in DOMAIN sent[i].properties}

\* the callers inside track(e) that hold a timer they took out
HoldersOf(e) ==
    {t \in Threads : thr[t].pc = "timed" /\ thr[t].event_name = e /\ thr[t].start_time_ms # {}}

\* the callers inside track(e) that are past remove_event_timer
PastTimerOf(e) ==
    {t \in Threads : thr[t].pc = "timed" /\ thr[t].event_name = e}

\* C37: with one time_event("E") and concurrent track calls, the timer is
\* used at most once (events with $duration and callers holding the timer
\* count one at most, and F has none); the call that reaches
\* remove_event_timer while the timer is open obtains it and leaves none
\* behind; and the event a call sends carries $duration exactly when that
\* call obtained the timer.
C37_TimerUsedOnce ==
    /\ [](/\ Cardinality(TimedOf("E")) + Cardinality(HoldersOf("E")) <= 1
          /\ TimedOf("F") = {} /\ HoldersOf("F") = {})
    /\ [][\A t \in Threads :
             /\ (thr[t].pc = "merged" /\ thr'[t].pc = "timed")
                    => /\ thr'[t].start_time_ms = MapGet(data.event_timers, thr[t].event_name)
                       /\ thr[t].event_name \notin DOMAIN data'.event_timers
             /\ (thr[t].pc = "timed" /\ thr'[t].pc = "idle")
                    => /\ Len(sent') = Len(sent) + 1
                       /\ sent'[Len(sent')].event = thr[t].event_name
                       /\ "$duration" \in DOMAIN sent'[Len(sent')].properties
                              <=> thr[t].start_time_ms # {}]_vars

\* C37 witness: two track("E") calls that ran at the same time have both
\* sent, the first event sent without $duration and the second with it.
C37_Witness ==
    /\ Len(sent) = 2
    /\ SentOf("E") = {1, 2}
    /\ TimedOf("E") = {2}
    /\ \A t \in Threads : thr[t].pc = "idle"
    /\ "E" \notin DOMAIN data.event_timers

\* C38: every request the people calls hand to the client carries a
\* $distinct_id that is a user id (present, not empty, no device prefix),
\* whatever identify and reset did between the identified check and the
\* read; and a caller past the check that finds no distinct_id returns an
\* error and hands nothing to the client.
C38_PeopleRequestsIdentified ==
    /\ [](\A i \in 1..Len(engage) :
              /\ "$distinct_id" \in DOMAIN engage[i]
              /\ engage[i]["$distinct_id"] \in UserIds
              /\ engage[i]["$distinct_id"] \notin DevicePrefixed)
    /\ [][\A t \in Threads :
             (thr[t].pc = "checked" /\ thr'[t].pc = "idle" /\ data.distinct_id = {})
                 => result' = "Err" /\ engage' = engage]_vars

\* C38 witness: identify("u2") came between the check and the read of a
\* call that was checked under u1, and the request went out for u2.
C38_Witness ==
    /\ last = "people_send_request"
    /\ Len(engage) = 2
    /\ engage[1]["$distinct_id"] = "u1"
    /\ engage[2]["$distinct_id"] = "u2"
    /\ \E t \in Threads : thr[t].pc # "idle"

\* C38 second case: reset came between the check and the read, and the
\* call returned the error without a request.
C38_WitnessReset ==
    /\ last = "people_send_request"
    /\ result = "Err"
    /\ engage = <<>>
    /\ data.distinct_id = {}

\* C39: an identify(new_id) whose $identify is not delivered returns an
\* error with the local change made: the distinct_id is new_id, $user_id
\* and distinct_id are registered as new_id, and the event was handed to the
\* client once; and an identify(new_id) called when the distinct_id is
\* new_id already (as after that failure) changes nothing and hands no
\* event to the client.
C39_IdentifyCommitsBeforeSend ==
    [][\A id \in UserIds \cap args'.id, net \in BOOLEAN :
          /\ (Identify(id, FALSE) /\ data.distinct_id # {} /\ data.distinct_id # {id}) =>
                 /\ result' = "Err"
                 /\ persistence_get_distinct_id(data') = {id}
                 /\ MapGet(data'.properties, "$user_id") = {id}
                 /\ MapGet(data'.properties, "distinct_id") = {id}
                 /\ Len(sent') = 1 /\ sent'[1].event = "$identify"
          /\ (Identify(id, net) /\ data.distinct_id = {id}) =>
                 /\ result' = "Ok"
                 /\ sent' = <<>>
                 /\ data' = data /\ super_properties' = super_properties]_vars

\* C39 witness: identify("u1") has failed to deliver $identify and the
\* identity is u1 all the same.
C39_Witness ==
    /\ last = "identify"
    /\ args.id = {"u1"}
    /\ result = "Err"
    /\ Len(sent) = 1
    /\ data.distinct_id = {"u1"}
    /\ MapGet(data.properties, "$user_id") = {"u1"}

\* the keys the record holds but does not show because its expiry has passed
ExpiredKeys == IF is_expired(data, now) THEN DOMAIN data.properties ELSE {}

\* C40: a key that the passed expiry hides is shown again by get_properties
\* only through a register that names that key.
C40_ExpiredStayHidden ==
    [][\A k \in ExpiredKeys :
          k \in DOMAIN persistence_get_properties(data', now') =>
              \E v \in Vals, days \in {{}, {0}, {1}} : Register(TRUE, k :> v, days)]_vars

\* C40, what does hold: the hidden keys are shown again only by a register
\* on the record that moves or clears the expiry, whatever keys it names.
C40_ExpiredShownByRegisterOnly ==
    [][\A k \in ExpiredKeys :
          k \in DOMAIN persistence_get_properties(data', now') =>
              /\ last' = "register"
              /\ data'.store_expires_at # data.store_expires_at]_vars

====
